---- MODULE Spec2Model ----
(***************************************************************************)
(* A model of workshop-rustlab-2022: the leaky bucket (src/leaky_bucket.rs),*)
(* the cost model (src/database.rs), the server's admission controller     *)
(* (src/bin/server/main.rs) and the client's paginated stream              *)
(* (src/my_stream.rs).                                                     *)
(*                                                                         *)
(* Time is counted in ticks; TicksPerSec ticks make one second.  The       *)
(* source counts nanoseconds (10^9 per second): a tick is the model's      *)
(* sub-second resolution, and every Duration and Instant is a number of    *)
(* ticks.  Option<T> is a sequence: <<>> is None and <<v>> is Some(v).     *)
(***************************************************************************)
EXTENDS Integers, Sequences, FiniteSets, TLC

VARIABLES
    now,        \* the clock read by Instant::now(), in ticks
    bkt,        \* SpecBucket: the LeakyBucket under test
    res,        \* SpecBucket: the last operation and what it returned
    seed,       \* SpecBucket: Some(points at creation) until add/saturating_add stores points
    aborted,    \* SpecBucket: whether an operation panicked
    database,   \* the number of entries of the server's database
    srv,        \* SpecServer: the bucket owned by handler()
    channel,    \* SpecServer: the mpsc channel of Message::Query, oldest first
    rootPc,     \* SpecServer: where each root() call stands
    rootQuery,  \* SpecServer: the ServerQuery of each root() call
    oneshot,    \* SpecServer: what handler() sent on each call's reply channel
    response,   \* SpecServer: the HTTP response each root() call returned
    serverUp,   \* SpecServer: FALSE once handler() has panicked
    grants,     \* SpecServer: how many requests bucket.add() accepted
    leaked,     \* SpecServer: whether decay has removed points from srv
    stream,     \* SpecStream: the MyStream (query, query_cost, bucket, inner)
    calls,      \* SpecStream: the network calls issued, with how each ended
    out,        \* SpecStream: what poll_next has returned Ready, in order
    crashed,    \* SpecStream: whether the client has panicked
    costQuery,  \* SpecCost: the ServerQuery given to calc_query_cost
    costResult, \* SpecCost: Some(what calc_query_cost returned), None before the call
    others,     \* SpecPair: the points put into srv by anything but the stream
    held        \* SpecOnce: the estimate the stream held when it issued its last request

\* the variables of each specification, and all of them
bucketVars == <<bkt, res, seed, aborted>>

serverVars == <<srv, channel, rootPc, rootQuery, oneshot, response,
                serverUp, grants, leaked>>

streamVars == <<stream, calls, out, crashed>>

costVars == <<costQuery, costResult>>

pairVars == <<others>>

onceVars == <<held>>

vars == <<now, database, bucketVars, serverVars, streamVars, costVars, pairVars,
          onceVars>>

\* what the actions of a specification leave alone: the other specifications
notBucket == <<database, serverVars, streamVars, costVars, pairVars, onceVars>>

notServer == <<bucketVars, streamVars, costVars, pairVars, onceVars>>

notStream == <<bucketVars, serverVars, costVars, pairVars, onceVars>>

notCost == <<now, database, bucketVars, serverVars, streamVars, pairVars,
             onceVars>>

\* the value of a variable in a specification that does not use it
Unused == <<>>

BucketUnused ==
    /\ bkt = Unused
    /\ res = Unused
    /\ seed = Unused
    /\ aborted = Unused

ServerUnused ==
    /\ srv = Unused
    /\ channel = Unused
    /\ rootPc = Unused
    /\ rootQuery = Unused
    /\ oneshot = Unused
    /\ response = Unused
    /\ serverUp = Unused
    /\ grants = Unused
    /\ leaked = Unused

StreamUnused ==
    /\ stream = Unused
    /\ calls = Unused
    /\ out = Unused
    /\ crashed = Unused

CostUnused ==
    /\ costQuery = Unused
    /\ costResult = Unused

PairUnused == others = Unused

OnceUnused == held = Unused

----------------------------------------------------------------------------
(* Bounds of the model. *)

\* ticks per second (the source has 1_000_000_000 nanoseconds per second)
TicksPerSec == 2
\* the clock stops advancing at MaxNow ticks
MaxNow == 8
\* the largest single advance of the clock, in ticks
MaxAdvance == 3
\* small capacities tried beside u16::MAX
MaxCapacity == 3
\* leak rates tried: 0..MaxLeak
MaxLeak == 2
\* small costs tried beside u16::MAX
MaxCost == 4

\* SpecServer: the clock stops advancing at SrvMaxNow ticks
SrvMaxNow == 2
\* SpecServer: the number of concurrent root() calls
NumRequests == 2

\* SpecStream: the stream issues at most StreamMaxCalls network calls
StreamMaxCalls == 4
\* SpecStream: at most MaxEndPolls polls of a finished stream are recorded
MaxEndPolls == 2

\* SpecPair: sporadic points are injected until MaxRejections calls were rejected
MaxRejections == 1

(* Program constants. *)

\* u8::MAX
U8Max == 255

\* database::FIELDS_LEN
FIELDS_LEN == 26
\* database::DEFAULT_PAGE_SIZE
DEFAULT_PAGE_SIZE == 10
\* database::MAX_BUCKET_CAPACITY
MAX_BUCKET_CAPACITY == 500
\* database::LEAK_PER_SECOND
LEAK_PER_SECOND == 4
\* server BUFFER_SIZE
BUFFER_SIZE == 32
\* handler's SPORADIC_POINTS_MAX
SPORADIC_POINTS_MAX == 4

\* u16::MAX
U16Max == 65535

None == <<>>
Some(v) == <<v>>
IsSome(o) == o # <<>>
Unwrap(o) == o[1]

\* F(x), with x evaluated once however often F refers to it
Bind(x, F(_)) == CHOOSE v \in {F(y) : y \in {x}} : TRUE

----------------------------------------------------------------------------
(* u16 arithmetic as the source uses it. *)

saturating_add_u16(a, b) == IF a + b > U16Max THEN U16Max ELSE a + b

saturating_sub_u16(a, b) == IF a < b THEN 0 ELSE a - b

saturating_mul_u16(a, b) == IF a * b > U16Max THEN U16Max ELSE a * b

----------------------------------------------------------------------------
(* LeakyBucket.  A bucket is a record of the struct's four fields, LastTime *)
(* flattened into instant and remainder_nanos (in ticks).  An operation     *)
(* takes the bucket and the clock and returns the bucket as it leaves it    *)
(* (the fields are Cells) with what it returns; panic marks a Rust panic.   *)

Bucket(points, capacity, leak_per_second, t) ==
    [capacity |-> capacity, leak_per_second |-> leak_per_second,
     last_points |-> points, instant |-> t, remainder_nanos |-> 0]

with_points_unchecked(points, capacity, leak_per_second, t) ==
    [panic |-> FALSE, bucket |-> Some(Bucket(points, capacity, leak_per_second, t))]


with_points(points, capacity, leak_per_second, t) ==
    IF points <= capacity
    THEN [panic |-> FALSE, bucket |-> Some(Bucket(points, capacity, leak_per_second, t))]
    ELSE [panic |-> TRUE, bucket |-> None]

empty(max_capacity, leak_per_second, t) ==
    with_points(0, max_capacity, leak_per_second, t)

points_no_remainder(b, t) ==
    LET delta == t - b.instant
        secs == delta \div TicksPerSec
        delta_secs == IF secs > U16Max THEN U16Max ELSE secs
        leak == saturating_mul_u16(delta_secs, b.leak_per_second)
        pts == saturating_sub_u16(b.last_points, leak)
    IN  [bucket |-> [b EXCEPT !.last_points = pts, !.instant = t,
                              !.remainder_nanos = 0],
         value |-> pts]

points_round_up(b, t) ==
    LET delta == (t - b.instant) + b.remainder_nanos
        secs == (delta + TicksPerSec - 1) \div TicksPerSec
        delta_secs == IF secs > U16Max THEN U16Max ELSE secs
        leak == saturating_mul_u16(delta_secs, b.leak_per_second)
        pts == saturating_sub_u16(b.last_points, leak)
    IN  [bucket |-> [b EXCEPT !.last_points = pts, !.instant = t,
                              !.remainder_nanos = delta % TicksPerSec],
         value |-> pts]


points_wrapping(b, t) ==
    LET delta == (t - b.instant) + b.remainder_nanos
        secs == delta \div TicksPerSec
        delta_secs == secs % (U16Max + 1)
        leak == (delta_secs * b.leak_per_second) % (U16Max + 1)
        pts == (b.last_points - leak) % (U16Max + 1)
    IN  [bucket |-> [b EXCEPT !.last_points = pts, !.instant = t,
                              !.remainder_nanos = delta % TicksPerSec],
         value |-> pts]


points(b, t) ==
    LET delta == (t - b.instant) + b.remainder_nanos
        secs == delta \div TicksPerSec
        delta_secs == IF secs > U16Max THEN U16Max ELSE secs
        leak == saturating_mul_u16(delta_secs, b.leak_per_second)
        pts == saturating_sub_u16(b.last_points, leak)
    IN  [bucket |-> [b EXCEPT !.last_points = pts, !.instant = t,
                              !.remainder_nanos = delta % TicksPerSec],
         value |-> pts]

add_unchecked(b, t, cost) ==
    LET charge(cur) ==
            LET sum == saturating_add_u16(cur.value, cost)
            IN  [bucket |-> [cur.bucket EXCEPT !.last_points = sum], ok |-> TRUE,
                 value |-> sum]
    IN  Bind(points(b, t), charge)

\* cur is what self.points() returned and left in the bucket
add(b, t, cost) ==
    LET charge(cur) ==
            LET sum == saturating_add_u16(cur.value, cost)
            IN  IF sum <= b.capacity
                THEN [bucket |-> [cur.bucket EXCEPT !.last_points = sum], ok |-> TRUE,
                      value |-> sum]
                ELSE [bucket |-> cur.bucket, ok |-> FALSE, value |-> cur.value]
    IN  Bind(points(b, t), charge)

saturating_add_unclamped(b, t, amount) ==
    LET charge(cur) ==
            LET sum == saturating_add_u16(cur.value, amount)
            IN  [bucket |-> [cur.bucket EXCEPT !.last_points = sum], value |-> sum]
    IN  Bind(points(b, t), charge)


saturating_add(b, t, amount) ==
    LET charge(cur) ==
            LET sum == saturating_add_u16(cur.value, amount)
                pts == IF sum < b.capacity THEN sum ELSE b.capacity
            IN  [bucket |-> [cur.bucket EXCEPT !.last_points = pts], value |-> pts]
    IN  Bind(points(b, t), charge)

available(b, t) ==
    LET cur == points(b, t)
    IN  [bucket |-> cur.bucket, value |-> b.capacity - cur.value]

wait_time_to_use_floor(b, t, cost) ==
    LET wait(cur) ==
            LET avail == b.capacity - cur.value
                to_restore == cost - avail
                seconds_needed == to_restore \div b.leak_per_second
                whole == seconds_needed * TicksPerSec
            IN  IF cost < avail
                THEN [bucket |-> cur.bucket, panic |-> FALSE, value |-> 0]
                ELSE IF b.leak_per_second = 0 \/ whole < cur.bucket.remainder_nanos
                     THEN [bucket |-> cur.bucket, panic |-> TRUE, value |-> 0]
                     ELSE [bucket |-> cur.bucket, panic |-> FALSE,
                           value |-> whole - cur.bucket.remainder_nanos]
    IN  Bind(points(b, t), wait)

\* checked_sub gives None only for cost < available; with cost = available
\* to_restore is 0.  The division panics for a leak of 0 and Duration - Duration
\* panics when the remainder exceeds the whole seconds.
wait_time_to_use(b, t, cost) ==
    LET wait(cur) ==
            LET avail == b.capacity - cur.value
                to_restore == cost - avail
                seconds_needed == (to_restore \div b.leak_per_second)
                                  + (IF to_restore % b.leak_per_second # 0 THEN 1 ELSE 0)
                whole == seconds_needed * TicksPerSec
            IN  IF cost < avail
                THEN [bucket |-> cur.bucket, panic |-> FALSE, value |-> 0]
                ELSE IF b.leak_per_second = 0 \/ whole < cur.bucket.remainder_nanos
                     THEN [bucket |-> cur.bucket, panic |-> TRUE, value |-> 0]
                     ELSE [bucket |-> cur.bucket, panic |-> FALSE,
                           value |-> whole - cur.bucket.remainder_nanos]
    IN  Bind(points(b, t), wait)

----------------------------------------------------------------------------
(* SpecBucket: one LeakyBucket used through its public methods while the    *)
(* clock advances.                                                         *)

Capacities == (0 .. MaxCapacity) \cup {U16Max}

\* seeds within MaxCapacity of the top of the bucket: every seed of a small
\* bucket, and the seeds of the largest one that a charge can take to u16::MAX
SeedPoints(capacity) ==
    {capacity - k : k \in {j \in 0 .. MaxCapacity : j <= capacity}}

Costs == (0 .. MaxCost) \cup {U16Max}

NoResult == [op |-> "none", cost |-> 0, before |-> 0, ok |-> TRUE, value |-> 0]

InitBucket ==
    /\ now = 0
    /\ \E capacity \in Capacities, leak \in 0 .. MaxLeak :
         \E p \in SeedPoints(capacity) :
            /\ bkt = Unwrap(with_points(p, capacity, leak, 0).bucket)
            /\ seed = Some(p)
    /\ res = NoResult
    /\ aborted = FALSE
    /\ database = 0
    /\ ServerUnused
    /\ StreamUnused
    /\ CostUnused
    /\ PairUnused
    /\ OnceUnused

Advance ==
    /\ ~aborted
    /\ \E d \in 1 .. MaxAdvance :
         /\ now + d <= MaxNow
         /\ now' = now + d
    /\ UNCHANGED <<bkt, res, seed, aborted>>
    /\ UNCHANGED notBucket

CallPoints ==
    /\ ~aborted
    /\ LET r == points(bkt, now)
       IN  /\ bkt' = r.bucket
           /\ res' = [op |-> "points", cost |-> 0, before |-> 0,
                      ok |-> TRUE, value |-> r.value]
    /\ UNCHANGED <<now, seed, aborted>>
    /\ UNCHANGED notBucket

\* res.before is the decayed count the call starts from; res.waited tells that
\* the call before it was a wait_time_to_use(cost) with cost > available() and
\* that exactly the duration it returned has elapsed since.
CallAdd ==
    /\ ~aborted
    /\ \E cost \in Costs :
         LET r == add(bkt, now, cost)
         IN  /\ bkt' = r.bucket
             /\ res' = [op |-> "add", cost |-> cost,
                        before |-> points(bkt, now).value,
                        ok |-> r.ok, value |-> r.value,
                        waited |-> /\ res.op = "wait_time_to_use"
                                   /\ res.ok
                                   /\ res.cost = cost
                                   /\ res.cost > res.before
                                   /\ now = bkt.instant + res.value]
             /\ seed' = IF r.ok THEN None ELSE seed
    /\ UNCHANGED <<now, aborted>>
    /\ UNCHANGED notBucket

CallSaturatingAdd ==
    /\ ~aborted
    /\ \E amount \in Costs :
         LET r == saturating_add(bkt, now, amount)
         IN  /\ bkt' = r.bucket
             /\ res' = [op |-> "saturating_add", cost |-> amount,
                        before |-> points(bkt, now).value,
                        ok |-> TRUE, value |-> r.value]
    /\ seed' = None
    /\ UNCHANGED <<now, aborted>>
    /\ UNCHANGED notBucket

CallAvailable ==
    /\ ~aborted
    /\ LET r == available(bkt, now)
       IN  /\ bkt' = r.bucket
           /\ res' = [op |-> "available", cost |-> 0, before |-> 0,
                      ok |-> TRUE, value |-> r.value]
    /\ UNCHANGED <<now, seed, aborted>>
    /\ UNCHANGED notBucket

\* res.before is available() at the call.
CallWaitTimeToUse ==
    /\ ~aborted
    /\ \E cost \in Costs :
         LET r == wait_time_to_use(bkt, now, cost)
         IN  /\ bkt' = r.bucket
             /\ res' = [op |-> "wait_time_to_use", cost |-> cost,
                        before |-> available(bkt, now).value,
                        ok |-> ~r.panic, value |-> r.value]
             /\ aborted' = r.panic
    /\ UNCHANGED <<now, seed>>
    /\ UNCHANGED notBucket

NextBucket ==
    \/ Advance
    \/ CallPoints
    \/ CallAdd
    \/ CallSaturatingAdd
    \/ CallAvailable
    \/ CallWaitTimeToUse

SpecBucket == InitBucket /\ [][NextBucket]_vars

----------------------------------------------------------------------------
(* Properties of the leaky bucket, checked under SpecBucket. *)

Max0(n) == IF n < 0 THEN 0 ELSE n

\* C2: in every reachable state the stored points are between 0 and the
\* capacity, and available() = capacity - points() never underflows.
C2_PointsWithinCapacity ==
    /\ 0 <= bkt.last_points
    /\ bkt.last_points <= bkt.capacity
    /\ (res.op = "available" => res.value >= 0)

\* a charge that had to be refused or clamped left the bucket within capacity
C2_Witness ==
    /\ res.op \in {"add", "saturating_add"}
    /\ res.before + res.cost > bkt.capacity
    /\ bkt.capacity > 0
    /\ bkt.last_points = bkt.capacity
    /\ now > 0

\* C3: for every capacity up to u16::MAX, an add(cost) with p + cost > capacity
\* returns the error carrying p and leaves the stored points at p, so that
\* points() with no time elapsed still returns p.
C3_RejectedAddLeavesPoints ==
    (res.op = "add" /\ res.before + res.cost > bkt.capacity)
        => /\ ~res.ok
           /\ res.value = res.before
           /\ points(bkt, now).value = res.before

\* C4: with no charge since creation, every observation returns
\* max(0, P - R * floor(T)) for the time T since creation, and the bucket
\* carries the sub-second part of T.
C4_DecayIsRateExact ==
    IsSome(seed) =>
        LET expected == Max0(Unwrap(seed)
                             - bkt.leak_per_second * (bkt.instant \div TicksPerSec))
        IN  /\ bkt.last_points = expected
            /\ bkt.remainder_nanos = bkt.instant % TicksPerSec
            /\ (res.op = "points" => res.value = expected)

\* points() called a second time within a second, after a sub-second
\* observation, returns a decayed and still positive count
C4_Witness ==
    /\ IsSome(seed)
    /\ res.op = "points"
    /\ bkt.remainder_nanos # 0
    /\ bkt.instant > TicksPerSec
    /\ res.value < Unwrap(seed)
    /\ res.value > 0

\* C5: wait_time_to_use(cost) returns a zero duration for every
\* cost <= available(), cost = available() included, whatever the remainder.
C5_ZeroWaitWhenAffordable ==
    (res.op = "wait_time_to_use" /\ res.cost <= res.before)
        => (res.ok /\ res.value = 0)

\* C6 as claimed: for every cost > available(), add(cost) succeeds when exactly
\* the duration wait_time_to_use(cost) returned has elapsed.
C6_AddAfterWaitSucceeds ==
    (res.op = "add" /\ res.waited) => res.ok

\* C6 amended: the same for every cost with available() < cost <= capacity
\* (wait_time_to_use returns a duration for such a cost only with a leak >= 1).
C6_AddAfterWaitSucceedsWithinCapacity ==
    (res.op = "add" /\ res.waited /\ res.cost <= bkt.capacity) => res.ok

\* an add that came exactly after a positive wait, on a bucket that was full
C6_Witness ==
    /\ res.op = "add"
    /\ res.waited
    /\ res.ok
    /\ res.cost <= bkt.capacity
    /\ bkt.leak_per_second >= 1
    /\ bkt.instant > 0
    /\ bkt.last_points = bkt.capacity

----------------------------------------------------------------------------
(* The cost model and the server.  A ServerQuery is a record: fields is the  *)
(* number of selected fields (the size of the HashSet), page and page_size   *)
(* are options.                                                             *)

unwrap_or(o, default) == IF IsSome(o) THEN Unwrap(o) ELSE default

calc_query_cost_wrapping(query) ==
    LET fields_cost == IF query.fields # 0 THEN query.fields ELSE FIELDS_LEN
    IN  (unwrap_or(query.page_size, DEFAULT_PAGE_SIZE) * fields_cost) % (U16Max + 1)


calc_query_cost(query) ==
    LET fields_cost == IF query.fields # 0 THEN query.fields ELSE FIELDS_LEN
    IN  saturating_mul_u16(unwrap_or(query.page_size, DEFAULT_PAGE_SIZE), fields_cost)

\* database.chunks(page_size).nth(page): the index of the first entry of the
\* page and the number of its entries; no chunk is an empty list.
page_entries(len, page_size, page) ==
    IF page * page_size >= len
    THEN [first |-> 0, len |-> 0]
    ELSE [first |-> page * page_size,
          len |-> IF len - page * page_size < page_size
                  THEN len - page * page_size ELSE page_size]

\* What handler() sends on the reply channel.
ReplyOk(bucket_points, capacity, leak_per_second, entries) ==
    [ok |-> TRUE, points |-> bucket_points, capacity |-> capacity,
     leak_per_second |-> leak_per_second, request |-> 0, entries |-> entries]

ReplyErr_charged(cost, pts, capacity, leak_per_second) ==
    [ok |-> FALSE, points |-> pts + cost, capacity |-> capacity,
     leak_per_second |-> leak_per_second, request |-> cost,
     entries |-> [first |-> 0, len |-> 0]]


ReplyErr(cost, pts, capacity, leak_per_second) ==
    [ok |-> FALSE, points |-> pts, capacity |-> capacity,
     leak_per_second |-> leak_per_second, request |-> cost,
     entries |-> [first |-> 0, len |-> 0]]

\* (BucketInfo, Response)::into_response and Error::into_response: the status,
\* the three bucket headers and the body.
into_response(reply) ==
    [status |-> IF reply.ok THEN 200 ELSE 429,
     headers |-> Some([points |-> reply.points, capacity |-> reply.capacity,
                       leak_per_second |-> reply.leak_per_second]),
     entries |-> reply.entries]

\* One iteration of handler()'s loop on message m with `noise` sporadic points
\* (0: gen_bool said no): the bucket afterwards, the reply if one is made, and
\* whether the iteration panicked (chunks(0), or a send to a dropped receiver).
handle_message_no_check(bucket, t, m, noise, len, receiver_alive) ==
    LET b1 == IF noise = 0 THEN bucket ELSE saturating_add(bucket, t, noise).bucket
        cost == calc_query_cost(m.query)
        r == add_unchecked(b1, t, cost)
        page_size == unwrap_or(m.query.page_size, DEFAULT_PAGE_SIZE)
    IN  [bucket |-> r.bucket, granted |-> TRUE,
         reply |-> IF page_size # 0 /\ receiver_alive
                   THEN Some(ReplyOk(r.value, b1.capacity, b1.leak_per_second,
                                     page_entries(len, page_size,
                                                  unwrap_or(m.query.page, 0))))
                   ELSE None,
         panic |-> page_size = 0 \/ ~receiver_alive]

handle_message_lost_charge(bucket, t, m, noise, len, receiver_alive) ==
    LET b1 == IF noise = 0 THEN bucket ELSE saturating_add(bucket, t, noise).bucket
        cost == calc_query_cost(m.query)
        r == add(b1, t, cost)
        page_size == unwrap_or(m.query.page_size, DEFAULT_PAGE_SIZE)
    IN  IF ~r.ok
        THEN [bucket |-> r.bucket, granted |-> FALSE,
              reply |-> IF receiver_alive
                        THEN Some(ReplyErr(cost, r.value, b1.capacity, b1.leak_per_second))
                        ELSE None,
              panic |-> ~receiver_alive]
        ELSE [bucket |-> points(b1, t).bucket, granted |-> TRUE,
              reply |-> IF page_size # 0 /\ receiver_alive
                        THEN Some(ReplyOk(r.value, b1.capacity, b1.leak_per_second,
                                          page_entries(len, page_size,
                                                       unwrap_or(m.query.page, 0))))
                        ELSE None,
              panic |-> page_size = 0 \/ ~receiver_alive]


handle_message(bucket, t, m, noise, len, receiver_alive) ==
    LET b1 == IF noise = 0 THEN bucket ELSE saturating_add(bucket, t, noise).bucket
        cost == calc_query_cost(m.query)
        r == add(b1, t, cost)
        page_size == unwrap_or(m.query.page_size, DEFAULT_PAGE_SIZE)
    IN  IF ~r.ok
        THEN [bucket |-> r.bucket, granted |-> FALSE,
              reply |-> IF receiver_alive
                        THEN Some(ReplyErr(cost, r.value, b1.capacity, b1.leak_per_second))
                        ELSE None,
              panic |-> ~receiver_alive]
        ELSE [bucket |-> r.bucket, granted |-> TRUE,
              reply |-> IF page_size # 0 /\ receiver_alive
                        THEN Some(ReplyOk(r.value, b1.capacity, b1.leak_per_second,
                                          page_entries(len, page_size,
                                                       unwrap_or(m.query.page, 0))))
                        ELSE None,
              panic |-> page_size = 0 \/ ~receiver_alive]

----------------------------------------------------------------------------
(* SpecServer: NumRequests HTTP requests reach root() concurrently; each     *)
(* sends its query to handler() over the channel and awaits the reply.  A    *)
(* panic of handler() unwinds through join! in main and ends the process.    *)

Requests == 1 .. NumRequests

\* the sizes of database tried
DatabaseLens == {0, 3, 10, 23}

\* the query shapes tried: costs 260, 200, 520 and 0
Queries ==
    { [fields |-> 0, page |-> None, page_size |-> None],
      [fields |-> 20, page |-> Some(1), page_size |-> None],
      [fields |-> 0, page |-> Some(2), page_size |-> Some(20)],
      [fields |-> 3, page |-> None, page_size |-> Some(0)] }

\* the sporadic points tried: none (gen_bool said no) and the most
Noises == {0, SPORADIC_POINTS_MAX}

NoQuery == [fields |-> 0, page |-> None, page_size |-> None]

InitServer ==
    /\ now = 0
    /\ database \in DatabaseLens
    /\ srv = Unwrap(empty(MAX_BUCKET_CAPACITY, LEAK_PER_SECOND, 0).bucket)
    /\ channel = <<>>
    /\ rootPc = [i \in Requests |-> "start"]
    /\ rootQuery = [i \in Requests |-> NoQuery]
    /\ oneshot = [i \in Requests |-> None]
    /\ response = [i \in Requests |-> None]
    /\ serverUp = TRUE
    /\ grants = 0
    /\ leaked = FALSE
    /\ BucketUnused
    /\ StreamUnused
    /\ CostUnused
    /\ PairUnused
    /\ OnceUnused

AdvanceServer ==
    /\ serverUp
    /\ now < SrvMaxNow
    /\ now' = now + 1
    /\ UNCHANGED <<database, srv, channel, rootPc, rootQuery, oneshot, response,
                   serverUp, grants, leaked>>
    /\ UNCHANGED notServer

\* root(): make the reply channel and send the query to handler().  The calls
\* are numbered in the order in which their sends complete.
RootSend(i) ==
    /\ serverUp
    /\ rootPc[i] = "start"
    /\ \A j \in Requests : j < i => rootPc[j] # "start"
    /\ Len(channel) < BUFFER_SIZE
    /\ \E query \in Queries :
         /\ rootQuery' = [rootQuery EXCEPT ![i] = query]
         /\ channel' = Append(channel, [query |-> query, replier |-> i])
    /\ rootPc' = [rootPc EXCEPT ![i] = "waiting"]
    /\ UNCHANGED <<now, database, srv, oneshot, response, serverUp, grants, leaked>>
    /\ UNCHANGED notServer

\* root(): the reply has come; it becomes the HTTP response.
RootRespond(i) ==
    /\ serverUp
    /\ rootPc[i] = "waiting"
    /\ IsSome(oneshot[i])
    /\ response' = [response EXCEPT ![i] = Some(into_response(Unwrap(oneshot[i])))]
    /\ rootPc' = [rootPc EXCEPT ![i] = "done"]
    /\ UNCHANGED <<now, database, srv, channel, rootQuery, oneshot, serverUp,
                   grants, leaked>>
    /\ UNCHANGED notServer

\* The client goes away while root() awaits: the future and its receiver are
\* dropped.
RootDropped(i) ==
    /\ serverUp
    /\ rootPc[i] = "waiting"
    /\ rootPc' = [rootPc EXCEPT ![i] = "dropped"]
    /\ UNCHANGED <<now, database, srv, channel, rootQuery, oneshot, response,
                   serverUp, grants, leaked>>
    /\ UNCHANGED notServer

\* handler(): one iteration of the loop, from recv() to the reply.
Handler ==
    /\ serverUp
    /\ channel # <<>>
    /\ \E noise \in Noises :
         LET m == Head(channel)
             h == handle_message(srv, now, m, noise, database,
                                 rootPc[m.replier] = "waiting")
         IN  /\ srv' = h.bucket
             /\ oneshot' = [oneshot EXCEPT ![m.replier] = h.reply]
             /\ serverUp' = ~h.panic
             /\ grants' = IF h.granted THEN grants + 1 ELSE grants
             /\ leaked' = (leaked \/ points(srv, now).value < srv.last_points)
    /\ channel' = Tail(channel)
    /\ UNCHANGED <<now, database, rootPc, rootQuery, response>>
    /\ UNCHANGED notServer

NextServer ==
    \/ AdvanceServer
    \/ \E i \in Requests : RootSend(i)
    \/ \E i \in Requests : RootRespond(i)
    \/ \E i \in Requests : RootDropped(i)
    \/ Handler

SpecServer == InitServer /\ [][NextServer]_vars

\* C9: from an empty budget and before any leak, when every request costs the
\* same c >= 1, the number of granted requests never exceeds floor(capacity / c).
C9_GrantsBoundedByCapacity ==
    \A query \in Queries :
        LET c == calc_query_cost(query)
        IN  ( /\ ~leaked
              /\ c >= 1
              /\ \A i \in Requests : rootPc[i] # "start" => rootQuery[i] = query )
            => grants <= srv.capacity \div c

\* every request cost 260 and was answered before any leak: one was granted
\* and another was refused
C9_Witness ==
    /\ ~leaked
    /\ \A i \in Requests : rootPc[i] = "done" /\ calc_query_cost(rootQuery[i]) = 260
    /\ grants = 1
    /\ \E i \in Requests : Unwrap(response[i]).status = 429
    /\ \E i \in Requests : Unwrap(response[i]).status = 200

----------------------------------------------------------------------------
(* The client's stream.  MyStream is a record of query, query_cost, bucket   *)
(* and inner; Inner is a record with a tag.  The request future is a record  *)
(* of what the async fn request_next_page holds: the request, the bucket     *)
(* moved into it, and pc, the await it is suspended at.                      *)

InnerEmpty == [tag |-> "Empty"]

InnerRequest(fut) == [tag |-> "Request", fut |-> fut]

InnerSleep(deadline) == [tag |-> "Sleep", deadline |-> deadline]

InnerDone == [tag |-> "Done"]

\* MyStream::new
new(fields) ==
    LET query == [fields |-> fields, page |-> None, page_size |-> None]
    IN  [query |-> query, query_cost |-> calc_query_cost(query),
         bucket |-> None, inner |-> InnerEmpty]

\* The bucket option as the call leaves it, the wait time if the local bucket
\* refuses the cost, and whether wait_time_to_use panicked.
get_wait_time_for_request(bucket, t, query_cost) ==
    IF ~IsSome(bucket)
    THEN [bucket |-> bucket, wait |-> None, panic |-> FALSE]
    ELSE LET refused(w) ==
                 [bucket |-> Some(w.bucket),
                  wait |-> IF w.panic THEN None ELSE Some(w.value),
                  panic |-> w.panic]
             added(r) ==
                 IF r.ok
                 THEN [bucket |-> Some(r.bucket), wait |-> None, panic |-> FALSE]
                 ELSE Bind(wait_time_to_use(r.bucket, t, query_cost), refused)
         IN  Bind(add(Unwrap(bucket), t, query_cost), added)

stream_request_next_page_no_advance(s, t) ==
    LET request == s.query
        decided(g) ==
            IF g.panic
            THEN [stream |-> [s EXCEPT !.bucket = g.bucket], issued |-> None,
                  panic |-> TRUE]
            ELSE IF IsSome(g.wait)
            THEN [stream |-> [s EXCEPT !.bucket = g.bucket,
                                       !.inner = InnerSleep(t + Unwrap(g.wait))],
                  issued |-> None, panic |-> FALSE]
            ELSE [stream |->
                      [s EXCEPT !.bucket = None,
                                !.inner = InnerRequest(
                                    [request |-> request, bucket |-> g.bucket,
                                     query_cost |-> s.query_cost,
                                     page_size |-> unwrap_or(s.query.page_size,
                                                             DEFAULT_PAGE_SIZE),
                                     pc |-> "execute"])],
                  issued |-> Some(request), panic |-> FALSE]
    IN  Bind(get_wait_time_for_request(s.bucket, t, s.query_cost), decided)

stream_request_next_page_sleep_advances(s, t) ==
    LET request == s.query
        next_page == IF IsSome(s.query.page) THEN Unwrap(s.query.page) + 1 ELSE 1
        decided(g) ==
            IF g.panic
            THEN [stream |-> [s EXCEPT !.bucket = g.bucket], issued |-> None,
                  panic |-> TRUE]
            ELSE IF IsSome(g.wait)
            THEN [stream |-> [s EXCEPT !.bucket = g.bucket,
                                       !.query = [s.query EXCEPT !.page = Some(next_page)],
                                       !.inner = InnerSleep(t + Unwrap(g.wait))],
                  issued |-> None, panic |-> FALSE]
            ELSE [stream |->
                      [s EXCEPT !.bucket = None,
                                !.query = [s.query EXCEPT !.page = Some(next_page)],
                                !.inner = InnerRequest(
                                    [request |-> request, bucket |-> g.bucket,
                                     query_cost |-> s.query_cost,
                                     page_size |-> unwrap_or(s.query.page_size,
                                                             DEFAULT_PAGE_SIZE),
                                     pc |-> "execute"])],
                  issued |-> Some(request), panic |-> FALSE]
    IN  Bind(get_wait_time_for_request(s.bucket, t, s.query_cost), decided)

\* MyStreamProj::request_next_page, with what every caller does with its
\* result: Ok(future) becomes Inner::Request and Err(sleep) becomes
\* Inner::Sleep.  issued is the query of the request created, if any.
stream_request_next_page(s, t) ==
    LET request == s.query
        next_page == IF IsSome(s.query.page) THEN Unwrap(s.query.page) + 1 ELSE 1
        decided(g) ==
            IF g.panic
            THEN [stream |-> [s EXCEPT !.bucket = g.bucket], issued |-> None,
                  panic |-> TRUE]
            ELSE IF IsSome(g.wait)
            THEN [stream |-> [s EXCEPT !.bucket = g.bucket,
                                       !.inner = InnerSleep(t + Unwrap(g.wait))],
                  issued |-> None, panic |-> FALSE]
            ELSE [stream |->
                      [s EXCEPT !.bucket = None,
                                !.query = [s.query EXCEPT !.page = Some(next_page)],
                                !.inner = InnerRequest(
                                    [request |-> request, bucket |-> g.bucket,
                                     query_cost |-> s.query_cost,
                                     page_size |-> unwrap_or(s.query.page_size,
                                                             DEFAULT_PAGE_SIZE),
                                     pc |-> "execute"])],
                  issued |-> Some(request), panic |-> FALSE]
    IN  Bind(get_wait_time_for_request(s.bucket, t, s.query_cost), decided)

try_from_headers_forgets_points(headers, t) ==
    IF ~IsSome(headers)
       \/ Unwrap(headers).points > U16Max
       \/ Unwrap(headers).capacity > U16Max
       \/ Unwrap(headers).leak_per_second > U8Max
    THEN [ok |-> FALSE, panic |-> FALSE, bucket |-> None]
    ELSE LET made(b) == [ok |-> ~b.panic, panic |-> b.panic, bucket |-> b.bucket]
         IN  Bind(with_points(0, Unwrap(headers).capacity,
                              Unwrap(headers).leak_per_second, t), made)

\* TryFrom<&HeaderMap>: headers is None when a header is missing or is no
\* number, else the three numbers sent; parse() refuses what does not fit the
\* type and with_points panics on points > capacity.
try_from_headers(headers, t) ==
    IF ~IsSome(headers)
       \/ Unwrap(headers).points > U16Max
       \/ Unwrap(headers).capacity > U16Max
       \/ Unwrap(headers).leak_per_second > U8Max
    THEN [ok |-> FALSE, panic |-> FALSE, bucket |-> None]
    ELSE LET made(b) == [ok |-> ~b.panic, panic |-> b.panic, bucket |-> b.bucket]
         IN  Bind(with_points(Unwrap(headers).points, Unwrap(headers).capacity,
                             Unwrap(headers).leak_per_second, t), made)

\* The results of the request future.
ResultPage(entries, has_another_page) ==
    [tag |-> "Page", entries |-> entries, has_another_page |-> has_another_page,
     wait_time |-> 0]

ResultNoData == [tag |-> "NoData", wait_time |-> 0]

ResultTooManyRequests(wait_time) == [tag |-> "TooManyRequests", wait_time |-> wait_time]

ResultOther(error) == [tag |-> "Other", error |-> error, wait_time |-> 0]

request_next_page_headers_keep_estimate(fut, t, status, headers) ==
    LET rough == ((fut.query_cost \div LEAK_PER_SECOND) + 1) * TicksPerSec
        rejected(g) ==
            [done |-> TRUE, panic |-> g.panic, fut |-> fut,
             result |-> ResultTooManyRequests(unwrap_or(g.wait, rough)),
             bucket |-> g.bucket]
        answered(bucket) ==
            IF status < 400
            THEN [done |-> FALSE, panic |-> FALSE,
                  fut |-> [fut EXCEPT !.bucket = bucket, !.pc = "text"],
                  result |-> ResultNoData, bucket |-> bucket]
            ELSE IF status = 429
            THEN Bind(get_wait_time_for_request(bucket, t, fut.query_cost), rejected)
            ELSE [done |-> TRUE, panic |-> FALSE, fut |-> fut,
                  result |-> ResultOther("Reqwest"), bucket |-> bucket]
        with_headers(parsed) ==
            IF parsed.panic
            THEN [done |-> TRUE, panic |-> TRUE, fut |-> fut,
                  result |-> ResultNoData, bucket |-> fut.bucket]
            ELSE Bind(IF parsed.ok THEN parsed.bucket ELSE fut.bucket, answered)
    IN  Bind(try_from_headers(headers, t), with_headers)

\* async fn request_next_page from the answer of client.execute() to its next
\* await or its return: done tells which, fut is the future suspended at
\* response.text(), result and bucket are what it returns.
request_next_page_headers(fut, t, status, headers) ==
    LET old == IF IsSome(fut.bucket) THEN Unwrap(fut.bucket)
               ELSE Unwrap(empty(MAX_BUCKET_CAPACITY, LEAK_PER_SECOND, t).bucket)
        rough == ((fut.query_cost \div LEAK_PER_SECOND) + 1) * TicksPerSec
        rejected(g) ==
            [done |-> TRUE, panic |-> g.panic, fut |-> fut,
             result |-> ResultTooManyRequests(unwrap_or(g.wait, rough)),
             bucket |-> g.bucket]
        answered(bucket) ==
            IF status < 400
            THEN [done |-> FALSE, panic |-> FALSE,
                  fut |-> [fut EXCEPT !.bucket = bucket, !.pc = "text"],
                  result |-> ResultNoData, bucket |-> bucket]
            ELSE IF status = 429
            THEN Bind(get_wait_time_for_request(bucket, t, fut.query_cost), rejected)
            ELSE [done |-> TRUE, panic |-> FALSE, fut |-> fut,
                  result |-> ResultOther("Reqwest"), bucket |-> bucket]
        with_headers(parsed) ==
            IF parsed.panic
            THEN [done |-> TRUE, panic |-> TRUE, fut |-> fut,
                  result |-> ResultNoData, bucket |-> fut.bucket]
            ELSE Bind(IF parsed.ok THEN parsed.bucket
                      ELSE Some(saturating_add(old, t, fut.query_cost).bucket), answered)
    IN  Bind(try_from_headers(headers, t), with_headers)

\* async fn request_next_page from the body to its return.  A body is a
\* record: kind is "array", "object", "scalar" (another JSON value) or
\* "invalid" (no JSON), entries are the records of an array or object, and
\* deser tells whether the text deserializes as T.
request_next_page_body_always_more(fut, body) ==
    IF body.kind \in {"array", "object"} /\ body.entries.len = 0
    THEN ResultNoData
    ELSE IF body.deser
         THEN ResultPage(body.entries, TRUE)
         ELSE ResultOther("SerdeJson")

request_next_page_body_empty_is_page(fut, body) ==
    LET has_another_page ==
            IF body.kind \in {"array", "object"}
            THEN body.entries.len = fut.page_size
            ELSE TRUE
    IN  IF body.deser
        THEN ResultPage(body.entries, has_another_page)
        ELSE IF body.kind \in {"array", "object"} /\ body.entries.len = 0
             THEN ResultNoData
             ELSE ResultOther("SerdeJson")


request_next_page_body(fut, body) ==
    LET has_another_page ==
            IF body.kind \in {"array", "object"}
            THEN body.entries.len = fut.page_size
            ELSE TRUE
    IN  IF body.kind \in {"array", "object"} /\ body.entries.len = 0
        THEN ResultNoData
        ELSE IF body.deser
             THEN ResultPage(body.entries, has_another_page)
             ELSE ResultOther("SerdeJson")

\* What poll_next returns.
Pending == [kind |-> "pending"]

ReadyItem(entries) == [kind |-> "item", entries |-> entries]

ReadyError(error) == [kind |-> "error", error |-> error]

ReadyEnd == [kind |-> "end"]

\* FusedStream::is_terminated
is_terminated(s) == s.inner.tag = "Done"


handle_request_result_retry_errors(s, t, result, bucket) ==
    LET s1 == [s EXCEPT !.bucket = bucket]
        next(n, poll) ==
            [stream |-> n.stream, issued |-> n.issued, panic |-> n.panic, poll |-> poll]
        item(n) == next(n, ReadyItem(result.entries))
        error(n) == next(n, ReadyError(result.error))
    IN  IF result.tag = "Page" /\ result.has_another_page
        THEN Bind(stream_request_next_page(s1, t), item)
        ELSE IF result.tag = "Page"
        THEN [stream |-> [s1 EXCEPT !.inner = InnerDone], issued |-> None,
              panic |-> FALSE, poll |-> ReadyItem(result.entries)]
        ELSE IF result.tag = "NoData"
        THEN [stream |-> [s1 EXCEPT !.inner = InnerDone], issued |-> None,
              panic |-> FALSE, poll |-> ReadyEnd]
        ELSE IF result.tag = "TooManyRequests"
        THEN [stream |-> [s1 EXCEPT !.inner = InnerSleep(t + result.wait_time)],
              issued |-> None, panic |-> FALSE, poll |-> Pending]
        ELSE Bind(stream_request_next_page(s1, t), error)

handle_request_result_rejection_ends(s, t, result, bucket) ==
    LET s1 == [s EXCEPT !.bucket = bucket]
        next(n, poll) ==
            [stream |-> n.stream, issued |-> n.issued, panic |-> n.panic, poll |-> poll]
        item(n) == next(n, ReadyItem(result.entries))
        error(n) == next(n, ReadyError(result.error))
    IN  IF result.tag = "Page" /\ result.has_another_page
        THEN Bind(stream_request_next_page(s1, t), item)
        ELSE IF result.tag = "Page"
        THEN [stream |-> [s1 EXCEPT !.inner = InnerDone], issued |-> None,
              panic |-> FALSE, poll |-> ReadyItem(result.entries)]
        ELSE IF result.tag \in {"NoData", "TooManyRequests"}
        THEN [stream |-> [s1 EXCEPT !.inner = InnerDone], issued |-> None,
              panic |-> FALSE, poll |-> ReadyEnd]
        ELSE [stream |-> [s1 EXCEPT !.inner = InnerDone], issued |-> None,
              panic |-> FALSE, poll |-> ReadyError(result.error)]

\* MyStream::handle_request_result.  A wait time is never zero, so the sleep it
\* sets is pending at its first poll and the retry is made when it has elapsed.
handle_request_result(s, t, result, bucket) ==
    LET s1 == [s EXCEPT !.bucket = bucket]
        next(n, poll) ==
            [stream |-> n.stream, issued |-> n.issued, panic |-> n.panic, poll |-> poll]
        item(n) == next(n, ReadyItem(result.entries))
        error(n) == next(n, ReadyError(result.error))
    IN  IF result.tag = "Page" /\ result.has_another_page
        THEN Bind(stream_request_next_page(s1, t), item)
        ELSE IF result.tag = "Page"
        THEN [stream |-> [s1 EXCEPT !.inner = InnerDone], issued |-> None,
              panic |-> FALSE, poll |-> ReadyItem(result.entries)]
        ELSE IF result.tag = "NoData"
        THEN [stream |-> [s1 EXCEPT !.inner = InnerDone], issued |-> None,
              panic |-> FALSE, poll |-> ReadyEnd]
        ELSE IF result.tag = "TooManyRequests"
        THEN [stream |-> [s1 EXCEPT !.inner = InnerSleep(t + result.wait_time)],
              issued |-> None, panic |-> FALSE, poll |-> Pending]
        ELSE [stream |-> [s1 EXCEPT !.inner = InnerDone], issued |-> None,
              panic |-> FALSE, poll |-> ReadyError(result.error)]

----------------------------------------------------------------------------
(* SpecStream: one MyStream polled by its consumer.  The server and the      *)
(* network are the environment: a request is answered with a status, with    *)
(* or without bucket headers, and with a body; a granted request is served   *)
(* the page of the database it asks for, as handler() does.  The clock       *)
(* advances with the events the stream waits for.                            *)

\* the numbers of fields the stream is created with: costs 260 and 30
FieldCounts == {0, 3}

\* the time a response or a body takes and the lateness of a timer, in ticks
Delays == {0, 1}

Statuses == {200, 429, 500}

\* the bucket headers of a response: none or unreadable, room left, nearly
\* full, a leak of 0, and more points than capacity
HeaderChoices ==
    { None,
      Some([points |-> 100, capacity |-> MAX_BUCKET_CAPACITY,
            leak_per_second |-> LEAK_PER_SECOND]),
      Some([points |-> 480, capacity |-> MAX_BUCKET_CAPACITY,
            leak_per_second |-> LEAK_PER_SECOND]),
      Some([points |-> 480, capacity |-> MAX_BUCKET_CAPACITY, leak_per_second |-> 0]),
      Some([points |-> 501, capacity |-> MAX_BUCKET_CAPACITY,
            leak_per_second |-> LEAK_PER_SECOND]) }

\* the page handler() serves for a request
served(request) ==
    page_entries(database, unwrap_or(request.page_size, DEFAULT_PAGE_SIZE),
                 unwrap_or(request.page, 0))

\* the bodies of a 200 response: the page served (genuine), the same with
\* entries that are no T, an empty and a non-empty object, a JSON scalar and
\* text that is no JSON
Bodies(request) ==
    { [kind |-> "array", entries |-> served(request), deser |-> TRUE, genuine |-> TRUE],
      [kind |-> "array", entries |-> served(request), deser |-> FALSE, genuine |-> FALSE],
      [kind |-> "object", entries |-> [first |-> 0, len |-> 0], deser |-> FALSE,
       genuine |-> FALSE],
      [kind |-> "object", entries |-> [first |-> 0, len |-> 2], deser |-> FALSE,
       genuine |-> FALSE],
      [kind |-> "scalar", entries |-> [first |-> 0, len |-> 0], deser |-> FALSE,
       genuine |-> FALSE],
      [kind |-> "invalid", entries |-> [first |-> 0, len |-> 0], deser |-> FALSE,
       genuine |-> FALSE] }

\* the record of a call just issued and of its end; headers tells whether the
\* response brought bucket headers ("sent") or none that can be read ("none")
Call(request) ==
    [page |-> unwrap_or(request.page, 0), outcome |-> "pending", len |-> 0,
     headers |-> "pending"]

\* call n of the log got a response with these bucket headers
Heard(log, n, headers) ==
    [log EXCEPT ![n].headers = IF IsSome(headers) THEN "sent" ELSE "none"]

Issue(log, issued) == IF IsSome(issued) THEN Append(log, Call(Unwrap(issued))) ELSE log

\* the last call ends with `outcome` and a body of `len` entries, and the
\* handling of its result may issue the next call
ResolveAndIssue(outcome, len, issued) ==
    Issue([calls EXCEPT ![Len(calls)] = [@ EXCEPT !.outcome = outcome, !.len = len]],
          issued)

\* what the consumer gets from a poll that ran handle_request_result: nothing
\* when it panicked or returned Pending
Deliver(h) == IF h.panic \/ h.poll.kind = "pending" THEN out ELSE Append(out, h.poll)

InitStream ==
    /\ now = 0
    /\ database \in DatabaseLens
    /\ \E fields \in FieldCounts : stream = new(fields)
    /\ calls = <<>>
    /\ out = <<>>
    /\ crashed = FALSE
    /\ BucketUnused
    /\ ServerUnused
    /\ CostUnused
    /\ PairUnused
    /\ OnceUnused

\* poll_next with Inner::Empty: the first poll.
PollEmpty ==
    /\ ~crashed
    /\ stream.inner.tag = "Empty"
    /\ \E n \in {stream_request_next_page(stream, now)} :
           /\ stream' = n.stream
           /\ calls' = Issue(calls, n.issued)
           /\ crashed' = n.panic
    /\ UNCHANGED <<now, database, out>>
    /\ UNCHANGED notStream

\* client.execute() fails: the future returns the error and poll_next handles it.
TransportFails ==
    /\ ~crashed
    /\ stream.inner.tag = "Request"
    /\ stream.inner.fut.pc = "execute"
    /\ \E h \in {handle_request_result(stream, now, ResultOther("Reqwest"),
                                        stream.inner.fut.bucket)} :
           /\ stream' = h.stream
           /\ calls' = ResolveAndIssue("failed", 0, h.issued)
           /\ out' = Deliver(h)
           /\ crashed' = h.panic
    /\ UNCHANGED <<now, database>>
    /\ UNCHANGED notStream

\* The status and the headers of the response arrive.  On a success status the
\* future goes on to await the body; otherwise it returns and poll_next handles
\* the result in the same poll.
HeadersArrive ==
    /\ ~crashed
    /\ stream.inner.tag = "Request"
    /\ stream.inner.fut.pc = "execute"
    /\ \E d \in Delays, status \in Statuses, headers \in HeaderChoices :
         \E r \in {request_next_page_headers(stream.inner.fut, now + d, status, headers)} :
             /\ now' = now + d
             /\ IF r.panic
                THEN /\ crashed' = TRUE
                     /\ UNCHANGED <<stream, calls, out>>
                ELSE IF ~r.done
                THEN /\ stream' = [stream EXCEPT !.inner = InnerRequest(r.fut)]
                     /\ calls' = Heard(calls, Len(calls), headers)
                     /\ UNCHANGED <<out, crashed>>
                ELSE \E h \in {handle_request_result(stream, now + d, r.result, r.bucket)} :
                     /\ stream' = h.stream
                     /\ calls' = Heard(ResolveAndIssue(IF status = 429 THEN "rejected"
                                                       ELSE "failed", 0, h.issued),
                                       Len(calls), headers)
                     /\ out' = Deliver(h)
                     /\ crashed' = h.panic
    /\ UNCHANGED database
    /\ UNCHANGED notStream

\* response.text() fails.
BodyFails ==
    /\ ~crashed
    /\ stream.inner.tag = "Request"
    /\ stream.inner.fut.pc = "text"
    /\ \E h \in {handle_request_result(stream, now, ResultOther("Reqwest"),
                                        stream.inner.fut.bucket)} :
           /\ stream' = h.stream
           /\ calls' = ResolveAndIssue("failed", 0, h.issued)
           /\ out' = Deliver(h)
           /\ crashed' = h.panic
    /\ UNCHANGED <<now, database>>
    /\ UNCHANGED notStream

\* The body arrives: the future returns and poll_next handles the result, which
\* issues the request for the next page when there is one.
BodyArrives ==
    /\ ~crashed
    /\ stream.inner.tag = "Request"
    /\ stream.inner.fut.pc = "text"
    /\ \E d \in Delays, body \in Bodies(stream.inner.fut.request) :
         \E result \in {request_next_page_body(stream.inner.fut, body)} :
         \E h \in {handle_request_result(stream, now + d, result,
                                          stream.inner.fut.bucket)} :
             /\ now' = now + d
             /\ stream' = h.stream
             /\ calls' = ResolveAndIssue(IF result.tag = "Other" THEN "failed"
                                         ELSE IF body.genuine THEN "granted" ELSE "odd",
                                         body.entries.len, h.issued)
             /\ out' = Deliver(h)
             /\ crashed' = h.panic
    /\ Len(calls') <= StreamMaxCalls
    /\ UNCHANGED database
    /\ UNCHANGED notStream

\* The timer fires, at its deadline or later, and poll_next (or the loop of
\* handle_request_result) calls request_next_page again.
SleepElapses ==
    /\ ~crashed
    /\ stream.inner.tag = "Sleep"
    /\ \E d \in Delays :
       \E t \in {(IF now < stream.inner.deadline THEN stream.inner.deadline ELSE now) + d} :
       \E n \in {stream_request_next_page(stream, t)} :
           /\ now' = t
           /\ stream' = n.stream
           /\ calls' = Issue(calls, n.issued)
           /\ crashed' = n.panic
    /\ Len(calls') <= StreamMaxCalls
    /\ UNCHANGED <<database, out>>
    /\ UNCHANGED notStream

PollDone_restarts ==
    /\ ~crashed
    /\ stream.inner.tag = "Done"
    /\ Cardinality({i \in DOMAIN out : out[i].kind = "end"}) < MaxEndPolls
    /\ out' = Append(out, ReadyEnd)
    /\ stream' = [stream EXCEPT !.inner = InnerEmpty]
    /\ UNCHANGED <<now, database, calls, crashed>>
    /\ UNCHANGED notStream

\* poll_next with Inner::Done.
PollDone ==
    /\ ~crashed
    /\ stream.inner.tag = "Done"
    /\ Cardinality({i \in DOMAIN out : out[i].kind = "end"}) < MaxEndPolls
    /\ out' = Append(out, ReadyEnd)
    /\ UNCHANGED <<now, database, stream, calls, crashed>>
    /\ UNCHANGED notStream

NextStream ==
    \/ PollEmpty
    \/ TransportFails
    \/ HeadersArrive
    \/ BodyFails
    \/ BodyArrives
    \/ SleepElapses
    \/ PollDone

SpecStream == InitStream /\ [][NextStream]_vars

----------------------------------------------------------------------------
(* Properties of the stream, checked under SpecStream. *)

Items == {k \in DOMAIN out : out[k].kind = "item"}

Errors == {k \in DOMAIN out : out[k].kind = "error"}

\* what the stream yields when nothing is rejected: page k - 1 of the database
\* as its k-th item
ExpectedItem(k) == page_entries(database, DEFAULT_PAGE_SIZE, k - 1)

\* every call so far was granted with the page served, rejected, or is pending
OnlyRejections ==
    \A i \in DOMAIN calls : calls[i].outcome \in {"pending", "granted", "rejected"}

\* C1: after a 429 for page p the next network call targets the same page p,
\* so that no page index is skipped.
C1_RetryTargetsSamePage ==
    \A i \in DOMAIN calls :
        (calls[i].outcome = "rejected" /\ i < Len(calls))
            => calls[i + 1].page = calls[i].page

\* C7: whatever is rejected, the items received are those received when
\* nothing is rejected: pages 0, 1, 2, ... in order, each once, and all the
\* non-empty pages once the stream is done.
C7_ItemsAsWithoutRejection ==
    (OnlyRejections /\ ~crashed) =>
        /\ \A k \in Items : out[k].entries = ExpectedItem(k)
        /\ (stream.inner.tag = "Done" =>
                \A k \in 1 .. StreamMaxCalls :
                    ExpectedItem(k).len > 0 => k \in Items)

\* C8: with n = DEFAULT_PAGE_SIZE, every granted non-empty page is yielded; an
\* item of fewer than n records is the last and leaves the stream Done with no
\* further request; after an item of n records the stream goes on to the next
\* page; and with pages of 10, 10 and 3 records granted there are exactly 3
\* calls and 23 records, then the end.
C8_ShortPageEndsStream ==
    ~crashed =>
        /\ \A i \in DOMAIN calls :
              (calls[i].outcome = "granted" /\ calls[i].len > 0)
                  => \E k \in Items :
                        out[k].entries = page_entries(database, DEFAULT_PAGE_SIZE,
                                                      calls[i].page)
        /\ \A k \in Items :
              out[k].entries.len < DEFAULT_PAGE_SIZE
                  => /\ stream.inner.tag = "Done"
                     /\ calls[Len(calls)].outcome = "granted"
                     /\ calls[Len(calls)].len = out[k].entries.len
                     /\ \A j \in DOMAIN out : j > k => out[j].kind = "end"
        /\ (out # <<>> /\ out[Len(out)].kind = "item"
                /\ out[Len(out)].entries.len = DEFAULT_PAGE_SIZE)
              => stream.inner.tag \in {"Request", "Sleep"}
        /\ \A i \in DOMAIN calls :
              (calls[i].outcome = "granted" /\ calls[i].len = DEFAULT_PAGE_SIZE)
                  => IF i < Len(calls)
                        THEN calls[i + 1].page = calls[i].page + 1
                        ELSE /\ stream.inner.tag = "Sleep"
                             /\ stream.query.page = Some(calls[i].page + 1)
        /\ (database = 23 /\ \A i \in DOMAIN calls : calls[i].outcome \in {"granted", "pending"})
              => /\ Len(calls) <= 3
                 /\ (stream.inner.tag = "Done"
                        => /\ [i \in DOMAIN calls |-> calls[i].len] = <<10, 10, 3>>
                           /\ [i \in 1 .. 3 |-> out[i].entries]
                                = <<[first |-> 0, len |-> 10], [first |-> 10, len |-> 10],
                                    [first |-> 20, len |-> 3]>>
                           /\ \A j \in DOMAIN out : j > 3 => out[j].kind = "end")

\* pages of 10, 10 and 3 records were granted, yielded, and the stream ended
C8_Witness ==
    /\ database = 23
    /\ stream.inner.tag = "Done"
    /\ Len(calls) = 3
    /\ \A i \in DOMAIN calls : calls[i].outcome = "granted"
    /\ Len(out) = 4
    /\ out[3] = ReadyItem([first |-> 20, len |-> 3])
    /\ out[4] = ReadyEnd

\* C10: a call that fails (transport, body transfer, a body that is no T, a
\* failure status other than 429) is the last call; the stream is Done, has
\* yielded exactly one error, and everything polled after it is the end.
C10_FailureIsFatal ==
    /\ \A i \in DOMAIN calls :
          calls[i].outcome = "failed"
              => /\ i = Len(calls)
                 /\ stream.inner.tag = "Done"
                 /\ Cardinality(Errors) = 1
    /\ \A k \in Errors :
          /\ calls[Len(calls)].outcome = "failed"
          /\ \A j \in DOMAIN out : j > k => out[j].kind = "end"

\* the second call failed after a first page was yielded, and the stream was
\* polled again
C10_Witness ==
    /\ Len(calls) = 2
    /\ calls[2].outcome = "failed"
    /\ stream.inner.tag = "Done"
    /\ Len(out) = 3
    /\ out[1].kind = "item"
    /\ out[2].kind = "error"
    /\ out[3].kind = "end"

\* C11: at most one page fetch is in flight: every call but the last has
\* resolved, the last one is pending exactly while the stream (if it has not
\* panicked) holds a request future, and the pages requested strictly increase, so that no request is
\* for a page lower than one already requested.
C11_OneFetchInFlight ==
    /\ \A i \in DOMAIN calls : i < Len(calls) => calls[i].outcome # "pending"
    /\ ~crashed =>
          (stream.inner.tag = "Request"
              <=> (calls # <<>> /\ calls[Len(calls)].outcome = "pending"))
    /\ \A i, j \in DOMAIN calls : i < j => calls[i].page < calls[j].page

\* a page was granted, the next request was rejected, and the retry is in flight
C11_Witness ==
    /\ Len(calls) = 3
    /\ calls[1].outcome = "granted"
    /\ calls[2].outcome = "rejected"
    /\ calls[3].outcome = "pending"
    /\ stream.inner.tag = "Request"

----------------------------------------------------------------------------
(* Further properties of the server, checked under SpecServer. *)

\* C12: a request abandoned by its client while it is queued or processed
\* leaves the controller running: as long as no query asks for pages of 0
\* records (which makes chunks() panic), handler() is still up.
C12_AbandonedRequestIsHarmless ==
    (\A i \in Requests : rootQuery[i].page_size # Some(0)) => serverUp

\* the points of the server's bucket at this instant once `noise` sporadic
\* points are added: the pre-charge points of the next decision
PreCharge(noise) ==
    IF noise = 0 THEN points(srv, now).value ELSE saturating_add(srv, now, noise).value

\* the reply handler() makes to request i in this step, with `noise` sporadic
\* points, is the budget right after the decision
SnapshotAfterDecision(i, noise) ==
    LET reply == Unwrap(oneshot'[i])
        cost == calc_query_cost(rootQuery[i])
    IN  /\ reply.capacity = srv.capacity
        /\ reply.leak_per_second = srv.leak_per_second
        /\ reply.points = srv'.last_points
        /\ reply.ok => reply.points = PreCharge(noise) + cost
        /\ ~reply.ok => reply.points = PreCharge(noise)

\* the response of request i carries the reply's snapshot in its headers
HeadersAreSnapshot(i) ==
    LET reply == Unwrap(oneshot[i])
        resp == Unwrap(response[i])
    IN  /\ resp.status = (IF reply.ok THEN 200 ELSE 429)
        /\ resp.headers = Some([points |-> reply.points, capacity |-> reply.capacity,
                                leak_per_second |-> reply.leak_per_second])

\* C13: every reply carries the budget right after the admission decision: a
\* granted (200) reply the pre-charge points plus the cost, a rejected (429)
\* reply the pre-charge points, both with the capacity and the leak rate.
C13_ReplyCarriesSnapshot ==
    /\ [](\A i \in Requests : IsSome(response[i]) => HeadersAreSnapshot(i))
    /\ [][\A i \in Requests :
            (~IsSome(oneshot[i]) /\ IsSome(oneshot'[i]))
                => \E noise \in Noises : SnapshotAfterDecision(i, noise)]_vars

\* a request was granted and the next, hit by sporadic points, was rejected
\* with the points of the first plus the noise
C13_Witness ==
    \E i, j \in Requests :
        /\ IsSome(response[i]) /\ IsSome(response[j])
        /\ Unwrap(response[i]).status = 200
        /\ Unwrap(response[j]).status = 429
        /\ Unwrap(Unwrap(response[i]).headers).points = 260
        /\ Unwrap(Unwrap(response[j]).headers).points = 260 + SPORADIC_POINTS_MAX

----------------------------------------------------------------------------
(* Further properties of the bucket, checked under SpecBucket. *)

Min(a, b) == IF a < b THEN a ELSE b

\* C14: saturating_add(amount) on a bucket holding p points stores and returns
\* min(capacity, p + amount), whatever p and amount are.
C14_SaturatingAddClamps ==
    res.op = "saturating_add" =>
        /\ res.value = Min(bkt.capacity, res.before + res.cost)
        /\ bkt.last_points = res.value

\* saturating_add of a positive amount on a full bucket returned the capacity
C14_Witness ==
    /\ res.op = "saturating_add"
    /\ bkt.capacity > 0
    /\ res.before = bkt.capacity
    /\ res.cost > 0
    /\ res.value = bkt.capacity

\* C15: right after a points() call, a second points() call at the same
\* instant returns the same value and leaves the stored points and the carried
\* remainder as they are.
C15_PointsIdempotent ==
    (res.op = "points" /\ bkt.instant = now) =>
        /\ points(bkt, now).value = res.value
        /\ points(bkt, now).bucket = bkt

\* points() was called half a second after the bucket's last update: it holds
\* points and carries a remainder
C15_Witness ==
    /\ res.op = "points"
    /\ bkt.instant = now
    /\ bkt.remainder_nanos > 0
    /\ bkt.leak_per_second > 0
    /\ res.value > 0

----------------------------------------------------------------------------
(* Further properties of the stream, checked under SpecStream. *)

\* the estimate the stream falls back to at time t when the response to the
\* request future fut has no readable bucket headers
FallbackEstimate(fut, t) ==
    saturating_add(IF IsSome(fut.bucket) THEN Unwrap(fut.bucket)
                   ELSE Bucket(0, MAX_BUCKET_CAPACITY, LEAK_PER_SECOND, t),
                   t, fut.query_cost).bucket

\* this step handles a response without readable bucket headers
HeadersUnreadable ==
    /\ calls # <<>>
    /\ calls[Len(calls)].headers = "pending"
    /\ calls'[Len(calls)].headers = "none"

----------------------------------------------------------------------------
(* Construction, checked under SpecBucket with the clock of each state. *)

\* the points tried at construction: within, just above and far above the
\* capacities tried
ConstructionPoints == (0 .. MaxCapacity + 1) \cup {U16Max}

\* C17: with_points(points, capacity, leak) panics exactly when points >
\* capacity; otherwise the bucket has a zero remainder and its immediate
\* points() is points.  empty(capacity, leak) is a bucket of 0 points whose
\* points() is 0 at every later instant; so is the bucket of the run while it
\* was built with 0 points and never charged.
C17_Construction ==
    /\ \A capacity \in Capacities, leak \in 0 .. MaxLeak, p \in ConstructionPoints :
          LET made == with_points(p, capacity, leak, now)
          IN  /\ made.panic <=> p > capacity
              /\ made.panic => made.bucket = None
              /\ ~made.panic =>
                    /\ Unwrap(made.bucket).remainder_nanos = 0
                    /\ points(Unwrap(made.bucket), now).value = p
                    /\ points(Unwrap(made.bucket), now).bucket = Unwrap(made.bucket)
    /\ \A capacity \in Capacities, leak \in 0 .. MaxLeak :
          LET made == empty(capacity, leak, now)
          IN  /\ ~made.panic
              /\ Unwrap(made.bucket).last_points = 0
              /\ \A t \in now .. MaxNow : points(Unwrap(made.bucket), t).value = 0
    /\ seed = Some(0) => (bkt.last_points = 0 /\ points(bkt, now).value = 0)
    /\ (IsSome(seed) /\ now = 0) => points(bkt, now).value = Unwrap(seed)

\* a leaking bucket built with 0 points was read after time passed, and a
\* construction with more points than its capacity panics
C17_Witness ==
    /\ seed = Some(0)
    /\ bkt.capacity > 0
    /\ bkt.leak_per_second > 0
    /\ now > TicksPerSec
    /\ res.op = "points"
    /\ bkt.instant = now
    /\ with_points(bkt.capacity + 1, bkt.capacity, bkt.leak_per_second, now).panic

----------------------------------------------------------------------------
(* SpecCost: calc_query_cost applied to one query.  A query is a record of   *)
(* the number of selected fields (a HashSet<ServerField> holds at most       *)
(* FIELDS_LEN of them), page and page_size.                                  *)

\* the page sizes tried: none, 0, 1, the default, the largest whose cost for
\* all the fields fits 16 bits, the next one, and the largest u16
CostPageSizes ==
    {None} \cup {Some(n) : n \in {0, 1, DEFAULT_PAGE_SIZE, U16Max \div FIELDS_LEN,
                                   U16Max \div FIELDS_LEN + 1, U16Max}}

InitCost ==
    /\ now = 0
    /\ database = 0
    /\ \E fields \in 0 .. FIELDS_LEN, page_size \in CostPageSizes :
         costQuery = [fields |-> fields, page |-> None, page_size |-> page_size]
    /\ costResult = None
    /\ BucketUnused
    /\ ServerUnused
    /\ StreamUnused
    /\ PairUnused
    /\ OnceUnused

CallCalcQueryCost ==
    /\ costResult = None
    /\ costResult' = Some(calc_query_cost(costQuery))
    /\ UNCHANGED costQuery
    /\ UNCHANGED notCost

NextCost == CallCalcQueryCost

SpecCost == InitCost /\ [][NextCost]_vars

\* C18: calc_query_cost(query) is min(65535, page size * field factor), with
\* the page size defaulting to 10 and the field factor being the number of
\* selected fields, or 26 when none is selected.
C18_CostIsSaturatingProduct ==
    IsSome(costResult) =>
        LET page_size == IF IsSome(costQuery.page_size) THEN Unwrap(costQuery.page_size)
                         ELSE 10
            field_factor == IF costQuery.fields = 0 THEN 26 ELSE costQuery.fields
        IN  Unwrap(costResult) = Min(65535, page_size * field_factor)

\* the cost of all the fields for the first page size whose product exceeds
\* 16 bits was computed and is 65535
C18_Witness ==
    /\ IsSome(costResult)
    /\ costQuery.fields = 0
    /\ costQuery.page_size = Some(2521)
    /\ Unwrap(costResult) = 65535

----------------------------------------------------------------------------
(* Serialization of the admission decisions, checked under SpecServer. *)

\* this step is one iteration of handler(): a message leaves the channel
HandlerStep == channel # <<>> /\ channel' = Tail(channel)

\* the decision made in this step on the oldest message, with `noise` sporadic
\* points: from the points the previous decision left, decayed and with the
\* noise, the cost is committed once if it fits and not at all otherwise
DecisionOnHead(noise) ==
    LET m == Head(channel)
        pre == PreCharge(noise)
        cost == calc_query_cost(m.query)
        replied == IsSome(oneshot'[m.replier])
    IN  \/ /\ pre + cost <= srv.capacity
           /\ srv'.last_points = pre + cost
           /\ grants' = grants + 1
           /\ replied => /\ Unwrap(oneshot'[m.replier]).ok
                         /\ Unwrap(oneshot'[m.replier]).points = pre + cost
        \/ /\ pre + cost > srv.capacity
           /\ srv'.last_points = pre
           /\ grants' = grants
           /\ replied => /\ ~Unwrap(oneshot'[m.replier]).ok
                         /\ Unwrap(oneshot'[m.replier]).points = pre

\* C19: handler() decides one request at a time, the oldest of the channel
\* first; the bucket changes in no other step, and each decision starts from
\* the points the previous one left (after decay and noise) and commits its
\* cost exactly once when it grants, and nothing when it rejects.
C19_DecisionsAreSerialized ==
    [][/\ HandlerStep =>
            /\ \A j \in Requests : j # Head(channel).replier => oneshot'[j] = oneshot[j]
            /\ \E noise \in Noises : DecisionOnHead(noise)
       /\ ~HandlerStep => (srv' = srv /\ oneshot' = oneshot /\ grants' = grants)]_vars

\* two requests were granted one after the other with no leak in between: the
\* second reply reports the points of the first, the noise and its own cost
C19_Witness ==
    /\ ~leaked
    /\ Len(channel) = 0
    /\ \E i, j \in Requests :
          /\ i < j
          /\ IsSome(oneshot[i]) /\ IsSome(oneshot[j])
          /\ Unwrap(oneshot[i]).ok /\ Unwrap(oneshot[j]).ok
          /\ calc_query_cost(rootQuery[j]) > 0
          /\ Unwrap(oneshot[j]).points
                = Unwrap(oneshot[i]).points + SPORADIC_POINTS_MAX
                  + calc_query_cost(rootQuery[j])

\* this step handles a 429 response: the pending call ends as rejected
RejectionStep ==
    /\ calls # <<>>
    /\ calls[Len(calls)].outcome = "pending"
    /\ calls'[Len(calls)].outcome = "rejected"

\* every call so far was rejected, but for a last one that may be pending
OnlyRejected ==
    \A i \in DOMAIN calls :
        \/ calls[i].outcome = "rejected"
        \/ (i = Len(calls) /\ calls[i].outcome = "pending")

\* C20: a 429 is never shown to the consumer: handling it yields nothing and
\* leaves the stream asleep (not Done); however many calls in a row were
\* rejected, nothing has been yielded, the stream is not Done, and when it
\* sleeps the retry that follows the sleep, unless the wait computation
\* panics, is a request or another sleep.
C20_RejectionIsAbsorbed ==
    /\ [][RejectionStep =>
            /\ out' = out
            /\ stream'.inner.tag = "Sleep"
            /\ ~crashed']_vars
    /\ []((OnlyRejected /\ ~crashed) =>
            /\ out = <<>>
            /\ stream.inner.tag \in {"Empty", "Request", "Sleep"}
            /\ stream.inner.tag = "Sleep" =>
                  LET t == IF now < stream.inner.deadline THEN stream.inner.deadline
                           ELSE now
                      n == stream_request_next_page(stream, t)
                  IN  n.panic \/ n.stream.inner.tag \in {"Request", "Sleep"})

\* three calls in a row were rejected: the consumer has seen nothing and the
\* stream sleeps before its next retry
C20_Witness ==
    /\ Len(calls) = 3
    /\ \A i \in DOMAIN calls : calls[i].outcome = "rejected"
    /\ out = <<>>
    /\ stream.inner.tag = "Sleep"
    /\ ~crashed

\* request_next_page is called at time t with the local estimate b, and add()
\* on b refuses the cost: what the step must then do
SelfThrottle(b, t) ==
    ~add(b, t, stream.query_cost).ok =>
        /\ Len(calls') = Len(calls)
        /\ stream'.query = stream.query
        /\ IF wait_time_to_use(b, t, stream.query_cost).panic
           THEN crashed'
           ELSE /\ ~crashed'
                /\ stream'.inner
                     = InnerSleep(t + wait_time_to_use(b, t, stream.query_cost).value)
                /\ IsSome(stream'.bucket)
                /\ points(Unwrap(stream'.bucket), t).value = points(b, t).value
                /\ Unwrap(stream'.bucket).capacity = b.capacity
                /\ Unwrap(stream'.bucket).leak_per_second = b.leak_per_second

\* the sleep of the stream ends in this step
TimerStep == stream.inner.tag = "Sleep" /\ ~crashed

\* a full page is delivered in this step, so the next page is asked for
FullPageStep ==
    /\ stream.inner.tag = "Request"
    /\ stream.inner.fut.pc = "text"
    /\ calls'[Len(calls)].outcome = "granted"
    /\ calls'[Len(calls)].len = stream.inner.fut.page_size

\* C21: when request_next_page finds a local estimate whose add(cost) is
\* refused, no call is issued, the page cursor is unchanged, the estimate
\* holds the points it held (decayed, without the cost), the stream sleeps
\* until now + wait_time_to_use(cost), and the request made after the sleep
\* is for the page of the unchanged cursor.  If wait_time_to_use panics
\* instead of returning, the stream panics.
C21_SelfThrottle ==
    /\ [][/\ TimerStep => SelfThrottle(Unwrap(stream.bucket), now')
          /\ FullPageStep => SelfThrottle(Unwrap(stream.inner.fut.bucket), now')
          /\ (TimerStep /\ Len(calls') > Len(calls)) =>
                 calls'[Len(calls')].page = unwrap_or(stream.query.page, 0)]_vars
    /\ [](stream.inner.tag = "Sleep" => IsSome(stream.bucket))

\* the stream throttled itself after a full page: it sleeps, and the last
\* call it issued was granted
C21_Witness ==
    /\ stream.inner.tag = "Sleep"
    /\ ~crashed
    /\ calls # <<>>
    /\ calls[Len(calls)].outcome = "granted"
    /\ Len(out) = 1
    /\ out[1].kind = "item"

\* the ceiling of a / b
CeilDiv(a, b) == (a + b - 1) \div b

\* the wait the stream is to sleep after a 429 when est is its local estimate
\* once the response headers are processed: wait_time_to_use(cost) of est, or
\* ceil(cost / leak rate) seconds when est accepts the cost and so asks for
\* no wait
RejectionWait(est, t, cost) ==
    IF add(est, t, cost).ok
    THEN CeilDiv(cost, LEAK_PER_SECOND) * TicksPerSec
    ELSE wait_time_to_use(est, t, cost).value

\* the estimates the stream can hold once the headers of the response to the
\* future fut are processed at time t: the one read from the headers, or the
\* fallback when they cannot be read
EstimatesHeard(fut, t, heard) ==
    IF heard = "none"
    THEN {FallbackEstimate(fut, t)}
    ELSE {Unwrap(try_from_headers(h, t).bucket) :
             h \in {x \in HeaderChoices : try_from_headers(x, t).ok}}

\* C22: on a 429 the stream sleeps for wait_time_to_use(cost) of its local
\* estimate, and when the estimate asks for no wait it sleeps for
\* ceil(cost / leak rate) seconds, whatever the cost.
C22_WaitOnRejection ==
    [][RejectionStep =>
        \E est \in EstimatesHeard(stream.inner.fut, now', calls'[Len(calls)].headers) :
            /\ stream'.bucket
                  = get_wait_time_for_request(Some(est), now', stream.query_cost).bucket
            /\ stream'.inner = InnerSleep(now' + RejectionWait(est, now', stream.query_cost))]_vars

\* C23: once the stream is Done nothing but a poll happens, the poll returns
\* end-of-stream and leaves the stream Done with no request and no timer
\* started, and is_terminated() is true exactly when the stream is Done: not
\* before the first poll, while a request is in flight or during a sleep.
C23_DoneIsAbsorbing ==
    /\ [][stream.inner.tag = "Done" =>
            /\ stream' = stream
            /\ calls' = calls
            /\ out' = Append(out, ReadyEnd)
            /\ is_terminated(stream')
            /\ ~crashed']_vars
    /\ [](/\ is_terminated(stream) <=> stream.inner = InnerDone
          /\ stream.inner.tag \in {"Empty", "Request", "Sleep"} => ~is_terminated(stream)
          /\ (is_terminated(stream) /\ ~crashed) =>
                /\ \A i \in DOMAIN calls : calls[i].outcome # "pending"
                /\ \A i, j \in DOMAIN out : (out[i].kind = "end" /\ i < j) => out[j].kind = "end")

\* a finished stream was polled twice more after its last page: both polls
\* returned end-of-stream
C23_Witness ==
    /\ stream.inner.tag = "Done"
    /\ Len(out) = 3
    /\ out[1].kind = "item"
    /\ out[2].kind = "end"
    /\ out[3].kind = "end"

\* the body of a success response arrives in this step and is an empty list
\* or an empty keyed collection
EmptyBodyStep ==
    /\ stream.inner.tag = "Request"
    /\ stream.inner.fut.pc = "text"
    /\ calls'[Len(calls)].outcome \in {"granted", "odd"}
    /\ calls'[Len(calls)].len = 0

\* C24: a success response with an empty list or an empty keyed collection as
\* its body makes the stream Done: the poll returns end-of-stream, not an
\* item, no request is issued and the page cursor stays.
C24_EmptyPageEndsStream ==
    [][EmptyBodyStep =>
        /\ stream'.inner = InnerDone
        /\ out' = Append(out, ReadyEnd)
        /\ calls' = [calls EXCEPT ![Len(calls)].outcome = calls'[Len(calls)].outcome]
        /\ stream'.query = stream.query
        /\ stream'.bucket = stream.inner.fut.bucket
        /\ ~crashed']_vars

\* the first page was full and the second came back empty: one item, then
\* the end
C24_Witness ==
    /\ Len(calls) = 2
    /\ calls[1].outcome = "granted"
    /\ calls[1].len = DEFAULT_PAGE_SIZE
    /\ calls[2].outcome = "granted"
    /\ calls[2].len = 0
    /\ out = <<ReadyItem([first |-> 0, len |-> DEFAULT_PAGE_SIZE]), ReadyEnd>>
    /\ stream.inner.tag = "Done"

----------------------------------------------------------------------------
(* SpecPair: one MyStream and the server it talks to.  The request in       *)
(* flight is decided by one iteration of handler() on the server's bucket   *)
(* srv, the reply becomes the response as root() makes it, and the body is  *)
(* the page served.  The server may have been used before the stream starts *)
(* (load) and may add sporadic points; others counts the points that did    *)
(* not come from the stream.                                                *)

\* the points in the server's bucket when the stream starts
Loads == {0, 300}

\* the calls of the stream that were rejected so far
Rejected == {i \in DOMAIN calls : calls[i].outcome = "rejected"}

\* the variables neither the stream nor the server's bucket use
notPair == <<bucketVars, costVars, channel, rootPc, rootQuery, oneshot, response,
             serverUp, grants, leaked, onceVars>>

InitPair ==
    /\ now = 0
    /\ database \in DatabaseLens
    /\ \E fields \in FieldCounts : stream = new(fields)
    /\ calls = <<>>
    /\ out = <<>>
    /\ crashed = FALSE
    /\ \E load \in Loads :
         /\ srv = Unwrap(with_points(load, MAX_BUCKET_CAPACITY, LEAK_PER_SECOND, 0).bucket)
         /\ others = load
    /\ channel = Unused
    /\ rootPc = Unused
    /\ rootQuery = Unused
    /\ oneshot = Unused
    /\ response = Unused
    /\ serverUp = Unused
    /\ grants = Unused
    /\ leaked = Unused
    /\ BucketUnused
    /\ CostUnused
    /\ OnceUnused

\* The request reaches handler() after d1 ticks, and the status and headers of
\* its reply reach the stream d2 ticks later.  On a success status the future
\* goes on to await the body; on a 429 it returns and poll_next handles it.
PairRespond ==
    /\ ~crashed
    /\ stream.inner.tag = "Request"
    /\ stream.inner.fut.pc = "execute"
    /\ \E d1 \in Delays, d2 \in Delays,
          noise \in (IF Cardinality(Rejected) < MaxRejections THEN Noises ELSE {0}) :
         \E hm \in {handle_message(srv, now + d1, [query |-> stream.inner.fut.request],
                                   noise, database, TRUE)} :
         \E resp \in {into_response(Unwrap(hm.reply))} :
         \E r \in {request_next_page_headers(stream.inner.fut, now + d1 + d2,
                                             resp.status, resp.headers)} :
             /\ now' = now + d1 + d2
             /\ srv' = hm.bucket
             /\ others' = others + noise
             /\ IF r.panic
                THEN /\ crashed' = TRUE
                     /\ UNCHANGED <<stream, calls, out>>
                ELSE IF ~r.done
                THEN /\ stream' = [stream EXCEPT !.inner = InnerRequest(r.fut)]
                     /\ calls' = Heard(calls, Len(calls), resp.headers)
                     /\ UNCHANGED <<out, crashed>>
                ELSE \E h \in {handle_request_result(stream, now + d1 + d2, r.result,
                                                     r.bucket)} :
                     /\ stream' = h.stream
                     /\ calls' = Heard(ResolveAndIssue("rejected", 0, h.issued),
                                       Len(calls), resp.headers)
                     /\ out' = Deliver(h)
                     /\ crashed' = h.panic
    /\ UNCHANGED database
    /\ UNCHANGED notPair

\* The body of the granted request arrives: the page served.
PairBody ==
    /\ ~crashed
    /\ stream.inner.tag = "Request"
    /\ stream.inner.fut.pc = "text"
    /\ \E d \in Delays :
         \E result \in {request_next_page_body(stream.inner.fut,
                            [kind |-> "array", entries |-> served(stream.inner.fut.request),
                             deser |-> TRUE, genuine |-> TRUE])} :
         \E h \in {handle_request_result(stream, now + d, result,
                                          stream.inner.fut.bucket)} :
             /\ now' = now + d
             /\ stream' = h.stream
             /\ calls' = ResolveAndIssue("granted", served(stream.inner.fut.request).len,
                                         h.issued)
             /\ out' = Deliver(h)
             /\ crashed' = h.panic
    /\ Len(calls') <= StreamMaxCalls
    /\ UNCHANGED <<database, srv, others>>
    /\ UNCHANGED notPair

NextPair ==
    \/ PollEmpty
    \/ PairRespond
    \/ PairBody
    \/ SleepElapses
    \/ PollDone

SpecPair == InitPair /\ [][NextPair]_vars

\* timers fire, responses and bodies arrive, and the consumer polls the stream
\* whenever it is woken
SpecPairLive ==
    /\ SpecPair
    /\ WF_vars(PollEmpty)
    /\ WF_vars(PairRespond)
    /\ WF_vars(PairBody)
    /\ WF_vars(SleepElapses)
    /\ WF_vars(PollDone)


Estimate ==
    IF IsSome(stream.bucket) THEN stream.bucket
    ELSE IF stream.inner.tag = "Request" THEN stream.inner.fut.bucket
    ELSE None

\* C30: when nothing but the stream has put points into the server's bucket
\* (no earlier load, no sporadic points), the local estimate, whenever there
\* is one, holds at least the points of the server's bucket at the same
\* instant, and no call after the first is rejected.
C30_EstimateCoversServer ==
    (others = 0 /\ ~crashed) =>
        /\ IsSome(Estimate) =>
              points(Unwrap(Estimate), now).value >= points(srv, now).value
        /\ \A i \in DOMAIN calls : i > 1 => calls[i].outcome # "rejected"

\* alone with the server, the stream throttled itself after the first page
\* and its second request was then granted
C30_Witness ==
    /\ others = 0
    /\ ~crashed
    /\ Len(calls) >= 2
    /\ calls[2].outcome = "granted"
    /\ stream.query_cost = 260
    /\ now >= 5 * TicksPerSec
    /\ IsSome(Estimate)
    /\ points(Unwrap(Estimate), now).value > points(srv, now).value


\* this step handles a response with readable bucket headers
HeadersReadable ==
    /\ calls # <<>>
    /\ calls[Len(calls)].headers = "pending"
    /\ calls'[Len(calls)].headers = "sent"

\* C26: after a response of status 200 or 429 with three readable bucket
\* headers, the local estimate is a bucket of exactly the points, capacity
\* and leak rate the headers report.
C26_HeadersReplaceEstimate ==
    [][(HeadersReadable /\ calls'[Len(calls)].outcome \in {"pending", "rejected"}) =>
        \E h \in HeaderChoices :
            /\ try_from_headers(h, now').ok
            /\ (IF calls'[Len(calls)].outcome = "pending"
                THEN stream'.inner.fut.bucket ELSE stream'.bucket)
                  = Some(Bucket(Unwrap(h).points, Unwrap(h).capacity,
                                Unwrap(h).leak_per_second, now'))]_vars


----------------------------------------------------------------------------
(* Further properties of the bucket, checked under SpecBucket. *)

\* C27: for a cost above available(), wait_time_to_use returns the ceiling of
\* (cost - available) / leak rate in whole seconds, less the remainder the
\* bucket carries, and this is not negative.  The quotient does not exist for
\* a leak rate of 0: the call then panics on the division.
C27_WaitIsCeilingLessRemainder ==
    (res.op = "wait_time_to_use" /\ res.cost > res.before) =>
        IF bkt.leak_per_second = 0
        THEN ~res.ok
        ELSE /\ res.ok
             /\ res.value = CeilDiv(res.cost - res.before, bkt.leak_per_second) * TicksPerSec
                              - bkt.remainder_nanos
             /\ res.value >= 0

\* a wait for a cost that needs a second and a half of leak, asked half a
\* second after the bucket's last update
C27_Witness ==
    /\ res.op = "wait_time_to_use"
    /\ res.cost > res.before
    /\ bkt.leak_per_second > 1
    /\ (res.cost - res.before) % bkt.leak_per_second # 0
    /\ bkt.remainder_nanos > 0
    /\ res.ok
    /\ res.value > TicksPerSec


----------------------------------------------------------------------------
(* SpecWide: one LeakyBucket near the top of the 16-bit range, used through *)
(* points(), add() and saturating_add() while the clock leaps by up to more *)
(* than u16::MAX seconds.                                                   *)

\* the clock stops leaping at WideMaxSecs seconds
WideMaxSecs == 140000

\* the leaps of the clock, in ticks: seconds around u16::MAX / 2 (one with a
\* tick more) and around u16::MAX
Leaps ==
    {40000 * TicksPerSec, 40000 * TicksPerSec + 1, U16Max * TicksPerSec,
     (U16Max + 1) * TicksPerSec, 70000 * TicksPerSec}

WideCapacities == {U16Max - 1, U16Max}

WideLeaks == {0, 1, 2, U8Max}

InitWide ==
    /\ now = 0
    /\ \E capacity \in WideCapacities, leak \in WideLeaks :
         \E p \in {0, capacity - 1, capacity} :
            /\ bkt = Unwrap(with_points(p, capacity, leak, 0).bucket)
            /\ seed = Some(p)
    /\ res = NoResult
    /\ aborted = FALSE
    /\ database = 0
    /\ ServerUnused
    /\ StreamUnused
    /\ CostUnused
    /\ PairUnused
    /\ OnceUnused

Leap ==
    /\ ~aborted
    /\ \E d \in Leaps :
         /\ now + d <= WideMaxSecs * TicksPerSec
         /\ now' = now + d
    /\ UNCHANGED <<bkt, res, seed, aborted>>
    /\ UNCHANGED notBucket

\* the charges tried: more than half the range, and all of it
WideCosts == {40000, U16Max}

WideAdd ==
    /\ ~aborted
    /\ \E cost \in WideCosts :
         \E r \in {add(bkt, now, cost)} :
             /\ bkt' = r.bucket
             /\ res' = [op |-> "add", cost |-> cost, before |-> points(bkt, now).value,
                        ok |-> r.ok, value |-> r.value, waited |-> FALSE]
             /\ seed' = IF r.ok THEN None ELSE seed
    /\ UNCHANGED <<now, aborted>>
    /\ UNCHANGED notBucket

WideSaturatingAdd ==
    /\ ~aborted
    /\ \E amount \in WideCosts :
         \E r \in {saturating_add(bkt, now, amount)} :
             /\ bkt' = r.bucket
             /\ res' = [op |-> "saturating_add", cost |-> amount,
                        before |-> points(bkt, now).value, ok |-> TRUE,
                        value |-> r.value]
    /\ seed' = None
    /\ UNCHANGED <<now, aborted>>
    /\ UNCHANGED notBucket

NextWide ==
    \/ Leap
    \/ CallPoints
    \/ WideAdd
    \/ WideSaturatingAdd

SpecWide == InitWide /\ [][NextWide]_vars

\* the whole seconds since the bucket's last update, with the carried
\* remainder
SecondsElapsed == ((now - bkt.instant) + bkt.remainder_nanos) \div TicksPerSec

\* the points of bkt at the clock's time, in unbounded arithmetic with each
\* quantity clamped to 16 bits
Decayed == Max0(bkt.last_points - Min(U16Max, Min(U16Max, SecondsElapsed) * bkt.leak_per_second))

\* C28: no operation wraps around 16 bits.  points() stores the points less
\* the leak, not below 0, where the elapsed seconds and their product with the
\* leak rate each count as 65535 at most; add() compares min(p + cost, 65535)
\* with the capacity, so a sum that overflows is refused on every capacity
\* below 65535, and stores that sum or leaves p; saturating_add() stores
\* min(p + amount, 65535, capacity).
C28_NoWrapAround ==
    [][(now' = now /\ res'.op \in {"points", "add", "saturating_add"}) =>
        /\ res'.op = "points" =>
              /\ res'.value = Decayed
              /\ bkt'.last_points = Decayed
        /\ res'.op = "add" =>
              /\ res'.ok <=> Min(Decayed + res'.cost, U16Max) <= bkt.capacity
              /\ (Decayed + res'.cost > U16Max /\ bkt.capacity < U16Max) => ~res'.ok
              /\ bkt'.last_points = IF res'.ok THEN Min(Decayed + res'.cost, U16Max)
                                    ELSE Decayed
              /\ res'.value = bkt'.last_points
        /\ res'.op = "saturating_add" =>
              /\ bkt'.last_points = Min(Min(Decayed + res'.cost, U16Max), bkt.capacity)
              /\ res'.value = bkt'.last_points
        /\ bkt'.last_points \in 0 .. U16Max]_vars

\* a full bucket of capacity 65535 and leak rate 1 was read after more than
\* 65535 seconds: it is empty
C28_Witness ==
    /\ res.op = "points"
    /\ res.value = 0
    /\ bkt.capacity = U16Max
    /\ bkt.leak_per_second = 1
    /\ seed = Some(U16Max)
    /\ now = (U16Max + 1) * TicksPerSec


----------------------------------------------------------------------------
(* Further properties of the server, checked under SpecServer. *)

\* handler() has taken the message of call i off the channel while root() was
\* still waiting for its reply
Handled(i) ==
    /\ rootPc[i] \in {"waiting", "done"}
    /\ \A k \in DOMAIN channel : channel[k].replier # i

\* the number of records of page n of size s: those with indices n * s up to
\* min((n + 1) * s, len) - 1
PageLen(n, s) == Max0(Min((n + 1) * s, database) - n * s)

\* C29: a request that handler() grants is answered with the records n * s up
\* to min((n + 1) * s, len) - 1 of the database, in order, where n is its page
\* (0 by default) and s its page size (10 by default); beyond the end of the
\* database that is the empty list.
C29_GrantedPageIsTheSlice ==
    \A i \in Requests :
        Handled(i) =>
            /\ IsSome(oneshot[i])
            /\ Unwrap(oneshot[i]).ok =>
                  LET n == unwrap_or(rootQuery[i].page, 0)
                      s == unwrap_or(rootQuery[i].page_size, DEFAULT_PAGE_SIZE)
                      entries == Unwrap(oneshot[i]).entries
                  IN  /\ entries.len = PageLen(n, s)
                      /\ entries.len > 0 => entries.first = n * s


\* C31: every message handler() takes off the channel while its caller still
\* awaits gets a reply, a grant or a rejection, on its reply channel, whatever
\* the query (a page size of 0, a cost of 0 and a page beyond the end
\* included), and handler() goes on to the next message.
C31_EveryMessageIsAnswered ==
    [][(HandlerStep /\ rootPc[Head(channel).replier] = "waiting") =>
          /\ IsSome(oneshot'[Head(channel).replier])
          /\ serverUp']_vars


\* C32: whatever bucket headers the responses carry, points above the
\* capacity and a leak rate of 0 included, the stream never panics: each
\* response either gives the estimate or takes the fallback, and every wait
\* derived from the estimate is a duration.
C32_HeadersNeverAbort == ~crashed


----------------------------------------------------------------------------
(* SpecOnce: the stream of SpecStream against a server that answers 200 or   *)
(* 429, with well-formed bucket headers or with none, and whose bodies are   *)
(* the pages asked for.  held remembers the estimate that                    *)
(* MyStreamProj::request_next_page found in self.bucket, and the instant,    *)
(* when it issued the request in flight.                                     *)

OnceStatuses == {200, 429}

\* the bucket headers of a response: none, room left, and little room left
OnceHeaderChoices ==
    { None,
      Some([points |-> 100, capacity |-> MAX_BUCKET_CAPACITY,
            leak_per_second |-> LEAK_PER_SECOND]),
      Some([points |-> 412, capacity |-> MAX_BUCKET_CAPACITY,
            leak_per_second |-> LEAK_PER_SECOND]) }

Held(bucket, t) == [bucket |-> bucket, at |-> t]

InitOnce ==
    /\ now = 0
    /\ database \in DatabaseLens
    /\ \E fields \in FieldCounts : stream = new(fields)
    /\ calls = <<>>
    /\ out = <<>>
    /\ crashed = FALSE
    /\ held = Held(None, 0)
    /\ BucketUnused
    /\ ServerUnused
    /\ CostUnused
    /\ PairUnused

notOnce == <<bucketVars, serverVars, costVars, pairVars>>

\* poll_next with Inner::Empty: the first request, issued without an estimate.
OncePollEmpty ==
    /\ ~crashed
    /\ stream.inner.tag = "Empty"
    /\ \E n \in {stream_request_next_page(stream, now)} :
           /\ stream' = n.stream
           /\ calls' = Issue(calls, n.issued)
           /\ crashed' = n.panic
           /\ held' = IF IsSome(n.issued) THEN Held(stream.bucket, now) ELSE held
    /\ UNCHANGED <<now, database, out>>
    /\ UNCHANGED notOnce

\* The status and the headers of the response arrive.
OnceHeadersArrive ==
    /\ ~crashed
    /\ stream.inner.tag = "Request"
    /\ stream.inner.fut.pc = "execute"
    /\ \E d \in Delays, status \in OnceStatuses, headers \in OnceHeaderChoices :
         \E r \in {request_next_page_headers(stream.inner.fut, now + d, status, headers)} :
             /\ now' = now + d
             /\ IF r.panic
                THEN /\ crashed' = TRUE
                     /\ UNCHANGED <<stream, calls, out>>
                ELSE IF ~r.done
                THEN /\ stream' = [stream EXCEPT !.inner = InnerRequest(r.fut)]
                     /\ calls' = Heard(calls, Len(calls), headers)
                     /\ UNCHANGED <<out, crashed>>
                ELSE \E h \in {handle_request_result(stream, now + d, r.result, r.bucket)} :
                     /\ stream' = h.stream
                     /\ calls' = Heard(ResolveAndIssue("rejected", 0, h.issued),
                                       Len(calls), headers)
                     /\ out' = Deliver(h)
                     /\ crashed' = h.panic
    /\ UNCHANGED <<database, held>>
    /\ UNCHANGED notOnce

\* The body arrives, and handle_request_result issues the request for the next
\* page when there is one: the estimate the future returned is the one held.
OnceBodyArrives ==
    /\ ~crashed
    /\ stream.inner.tag = "Request"
    /\ stream.inner.fut.pc = "text"
    /\ \E d \in Delays :
         \E body \in {[kind |-> "array", entries |-> served(stream.inner.fut.request),
                       deser |-> TRUE, genuine |-> TRUE]} :
         \E result \in {request_next_page_body(stream.inner.fut, body)} :
         \E h \in {handle_request_result(stream, now + d, result,
                                          stream.inner.fut.bucket)} :
             /\ now' = now + d
             /\ stream' = h.stream
             /\ calls' = ResolveAndIssue("granted", body.entries.len, h.issued)
             /\ out' = Deliver(h)
             /\ crashed' = h.panic
             /\ held' = IF IsSome(h.issued) THEN Held(stream.inner.fut.bucket, now + d)
                        ELSE held
    /\ Len(calls') <= StreamMaxCalls
    /\ UNCHANGED database
    /\ UNCHANGED notOnce

\* The timer fires and request_next_page is called again.
OnceSleepElapses ==
    /\ ~crashed
    /\ stream.inner.tag = "Sleep"
    /\ \E d \in Delays :
       \E t \in {(IF now < stream.inner.deadline THEN stream.inner.deadline ELSE now) + d} :
       \E n \in {stream_request_next_page(stream, t)} :
           /\ now' = t
           /\ stream' = n.stream
           /\ calls' = Issue(calls, n.issued)
           /\ crashed' = n.panic
           /\ held' = IF IsSome(n.issued) THEN Held(stream.bucket, t) ELSE held
    /\ Len(calls') <= StreamMaxCalls
    /\ UNCHANGED <<database, out>>
    /\ UNCHANGED notOnce

\* poll_next with Inner::Done.
OncePollDone ==
    /\ ~crashed
    /\ stream.inner.tag = "Done"
    /\ Cardinality({i \in DOMAIN out : out[i].kind = "end"}) < MaxEndPolls
    /\ out' = Append(out, ReadyEnd)
    /\ UNCHANGED <<now, database, stream, calls, crashed, held>>
    /\ UNCHANGED notOnce

NextOnce ==
    \/ OncePollEmpty
    \/ OnceHeadersArrive
    \/ OnceBodyArrives
    \/ OnceSleepElapses
    \/ OncePollDone

SpecOnce == InitOnce /\ [][NextOnce]_vars

\* the points of the estimate held at the issue of the request in flight, with
\* the cost counted once, at time t: counted when the response comes, or
\* counted when the request was issued and decayed since
OnceAtResponse(t) ==
    LET pre == IF IsSome(held.bucket) THEN Unwrap(held.bucket)
               ELSE Bucket(0, MAX_BUCKET_CAPACITY, LEAK_PER_SECOND, t)
    IN  Min(pre.capacity, points(pre, t).value + stream.query_cost)

OnceAtIssue(t) ==
    IF IsSome(held.bucket)
    THEN points(add(Unwrap(held.bucket), held.at, stream.query_cost).bucket, t).value
    ELSE OnceAtResponse(t)

\* C33: when a response has no readable bucket headers, the estimate the
\* stream holds after handling it has the points of the estimate held before
\* the request was issued, decayed, plus the cost of the request counted one
\* time, and no more than the capacity.
C33_CostCountedOnce ==
    [][(HeadersUnreadable /\ ~crashed') =>
          LET after == IF stream'.inner.tag = "Request" THEN stream'.inner.fut.bucket
                       ELSE stream'.bucket
          IN  points(Unwrap(after), now').value \in {OnceAtResponse(now'), OnceAtIssue(now')}]_vars


----------------------------------------------------------------------------
(* SpecClock: SpecOnce with the clock seen at its finest.  Every points()    *)
(* reads Instant::now(); while a 429 is handled, add() reads it in           *)
(* get_wait_time_for_request and wait_time_to_use() reads it again after     *)
(* the refusal.  The actions of SpecOnce take both reads in one tick; here   *)
(* the second read may also fall in the next tick.                           *)

\* get_wait_time_for_request when add() reads the clock at t and
\* wait_time_to_use() reads it at t2 >= t
get_wait_time_for_request_later(bucket, t, t2, query_cost) ==
    IF ~IsSome(bucket)
    THEN [bucket |-> bucket, wait |-> None, panic |-> FALSE]
    ELSE LET refused(w) ==
                 [bucket |-> Some(w.bucket),
                  wait |-> IF w.panic THEN None ELSE Some(w.value),
                  panic |-> w.panic]
             added(r) ==
                 IF r.ok
                 THEN [bucket |-> Some(r.bucket), wait |-> None, panic |-> FALSE]
                 ELSE Bind(wait_time_to_use(r.bucket, t2, query_cost), refused)
         IN  Bind(add(Unwrap(bucket), t, query_cost), added)

\* async fn request_next_page from a 429 answer of client.execute() to its
\* return: the headers are processed at t, and the wait is computed with the
\* clock reads of get_wait_time_for_request_later
request_next_page_rejected(fut, t, t2, headers) ==
    LET old == IF IsSome(fut.bucket) THEN Unwrap(fut.bucket)
               ELSE Unwrap(empty(MAX_BUCKET_CAPACITY, LEAK_PER_SECOND, t).bucket)
        rough == ((fut.query_cost \div LEAK_PER_SECOND) + 1) * TicksPerSec
        rejected(g) ==
            [done |-> TRUE, panic |-> g.panic, fut |-> fut,
             result |-> ResultTooManyRequests(unwrap_or(g.wait, rough)),
             bucket |-> g.bucket]
        answered(bucket) ==
            Bind(get_wait_time_for_request_later(bucket, t, t2, fut.query_cost), rejected)
        with_headers(parsed) ==
            IF parsed.panic
            THEN [done |-> TRUE, panic |-> TRUE, fut |-> fut,
                  result |-> ResultNoData, bucket |-> fut.bucket]
            ELSE Bind(IF parsed.ok THEN parsed.bucket
                      ELSE Some(saturating_add(old, t, fut.query_cost).bucket), answered)
    IN  Bind(try_from_headers(headers, t), with_headers)

\* A 429 arrives and the clock moves on one tick between the refusal by add()
\* and the clock read of wait_time_to_use(); poll_next handles the result.
RejectionAcrossTicks ==
    /\ ~crashed
    /\ stream.inner.tag = "Request"
    /\ stream.inner.fut.pc = "execute"
    /\ \E d \in Delays, headers \in OnceHeaderChoices :
         \E r \in {request_next_page_rejected(stream.inner.fut, now + d, now + d + 1,
                                              headers)} :
             /\ now' = now + d + 1
             /\ IF r.panic
                THEN /\ crashed' = TRUE
                     /\ UNCHANGED <<stream, calls, out>>
                ELSE \E h \in {handle_request_result(stream, now + d + 1, r.result,
                                                     r.bucket)} :
                     /\ stream' = h.stream
                     /\ calls' = Heard(ResolveAndIssue("rejected", 0, h.issued),
                                       Len(calls), headers)
                     /\ out' = Deliver(h)
                     /\ crashed' = h.panic
    /\ UNCHANGED <<database, held>>
    /\ UNCHANGED notOnce

NextClock ==
    \/ OncePollEmpty
    \/ OnceHeadersArrive
    \/ RejectionAcrossTicks
    \/ OnceBodyArrives
    \/ OnceSleepElapses
    \/ OncePollDone

SpecClock == InitOnce /\ [][NextClock]_vars

\* C34: handling a 429 always puts the stream to sleep until an instant later
\* than the end of the handling: the wait computed is more than zero, so the
\* request that follows a rejection is never issued at once.
C34_PositiveWaitAfterRejection ==
    [][RejectionStep =>
          /\ stream'.inner.tag = "Sleep"
          /\ stream'.inner.deadline > now']_vars

====
